---- MODULE Spec2Model ----
(***************************************************************************)
(* A model of hikari.files: the Resource variants (File, URL, Bytes), the  *)
(* scoped reader handles their stream() returns, the chunked readers, and  *)
(* save() with its target-path resolution.                                 *)
(*                                                                         *)
(* The state machines of the module share its variables:                   *)
(*   SpecStream    tasks running `async with r.stream() as reader:` on one *)
(*                 Resource r, with the transports (files opened by the    *)
(*                 thread pool, client sessions and responses) they        *)
(*                 acquire;                                                *)
(*   SpecSeq       the tasks using one handle one after the other, each    *)
(*                 reading to the end, under fair scheduling;              *)
(*   SpecReader    one IteratorReader re-buffering a source of chunks;     *)
(*   SpecFile      one ThreadedFileReader over a file;                     *)
(*   SpecSave      save() calls against a small file system;               *)
(*   SpecResource  the constructors and ensure_resource;                   *)
(*   SpecDataUri   to_data_uri and Bytes.from_data_uri.                    *)
(***************************************************************************)
EXTENDS Naturals, Integers, Sequences, FiniteSets, TLC

(***************************************************************************)
(* Bounds of the model.                                                    *)
(***************************************************************************)
\* Files the thread pool can open in one behaviour.
MaxFds == 2
\* Client sessions (each with its one response context) in one behaviour.
MaxConns == 2
\* Nesting depth of `async with` scopes one task opens.
MaxDepth == 2
\* Source chunks of the in-memory data drawn for SpecReader.
MaxChunks == 3
\* Length of one source chunk drawn for SpecReader.
MaxChunkLen == 4

\* files.py:73 `_MAGIC = 50 * 1024`, the block size, scaled down to 3 bytes.
_MAGIC == 3

Tasks == {1, 2}
Handles == {1, 2}
Fds == 1..MaxFds
Conns == 1..MaxConns
\* `None` for the file field, `NotImplemented` for the session fields.
None == 0

VARIABLES
    kind,      \* the variant of the Resource r and the shape of its data
    data,      \* r's content: the sequence of chunks its source produces
    dataPos,   \* chunks already taken from r.data when it is a one-shot iterator
    hof,       \* hof[t]: the handle instance task t uses
    handle,    \* handle[h]: the fields of handle instance h
    fds,       \* fds[f]: a file object the thread pool opened
    conns,     \* conns[c]: a ClientSession and the response context it created
    task,      \* task[t]: the position and the locals of task t
    fs,        \* the file system: fs[p] is what is at path p
    sv,        \* the call of r.save(path, force=...): its position and locals
    heap,      \* the Resource objects made so far; an object's identity is its index
    call       \* the last call of ensure_resource, to_data_uri or from_data_uri

streamVars == <<kind, data, dataPos, hof, handle, fds, conns, task>>
vars == <<kind, data, dataPos, hof, handle, fds, conns, task, fs, sv, heap, call>>

(***************************************************************************)
(* Bytes and chunks.  A byte string is a sequence of numbers; a chunk a    *)
(* source produces is a record of its Python type and its content (for     *)
(* "str" the code points, for "bytes" the bytes).                          *)
(***************************************************************************)
RECURSIVE Flatten(_)
Flatten(ss) == IF ss = <<>> THEN <<>> ELSE Head(ss) \o Flatten(Tail(ss))

\* bytes(data, "utf-8") for code points below 2048.
RECURSIVE Utf8(_)
Utf8(s) ==
    IF s = <<>> THEN <<>>
    ELSE (IF Head(s) < 128 THEN <<Head(s)>>
          ELSE <<192 + (Head(s) \div 64), 128 + (Head(s) % 64)>>) \o Utf8(Tail(s))

BytesChunk(v) == [ty |-> "bytes", v |-> v]
StrChunk(v) == [ty |-> "str", v |-> v]
OtherChunk(v) == [ty |-> "other", v |-> v]

\* IteratorReader._assert_bytes: its result, and whether it raises TypeError.
_assert_bytes(c) == IF c.ty = "str" THEN Utf8(c.v) ELSE c.v
AssertBytesRaises(c) == c.ty \notin {"str", "bytes"}

\* data[i : i + n], zero-based i.
Slice(b, i, n) == SubSeq(b, i + 1, IF i + n < Len(b) THEN i + n ELSE Len(b))

\* The bytes of the resource: what a complete read must return.
Content == Flatten([i \in 1..Len(data) |-> _assert_bytes(data[i])])

(***************************************************************************)
(* Text, base64 and data URIs.  A str is the sequence of its atoms: every  *)
(* punctuation character is an atom of its own, and so is every maximal    *)
(* run of other characters outside the payload of a data URI; inside the   *)
(* payload every character is an atom.  A bytes value is the sequence of   *)
(* its bytes, 0..255.                                                      *)
(***************************************************************************)
\* str.startswith / bytes.startswith, and startswith after a slice s[n:].
StartsWith(s, p) == Len(s) >= Len(p) /\ SubSeq(s, 1, Len(p)) = p
StartsWithAt(s, n, p) == Len(s) >= n + Len(p) /\ SubSeq(s, n + 1, n + Len(p)) = p
EndsWith(s, p) == Len(s) >= Len(p) /\ SubSeq(s, Len(s) - Len(p) + 1, Len(s)) = p

\* str.find(a) for one character a: the least index (from 1) below `hi`
\* that holds a, or 0.
Find(s, a, hi) ==
    LET at == {i \in 1..(IF hi < Len(s) THEN hi ELSE Len(s)) : s[i] = a}
    IN IF at = {} THEN 0 ELSE CHOOSE i \in at : \A j \in at : i <= j

\* The value None where a str is expected.
NoneStr == <<"<None>">>

\* The base64 alphabet, in the order of its values 0..63.
B64Alphabet ==
    << "A", "B", "C", "D", "E", "F", "G", "H", "I", "J", "K", "L", "M", "N", "O", "P",
       "Q", "R", "S", "T", "U", "V", "W", "X", "Y", "Z", "a", "b", "c", "d", "e", "f",
       "g", "h", "i", "j", "k", "l", "m", "n", "o", "p", "q", "r", "s", "t", "u", "v",
       "w", "x", "y", "z", "0", "1", "2", "3", "4", "5", "6", "7", "8", "9", "+", "/" >>

\* The value of a character in the base64 alphabet; 64 for any other.
B64Value(c) ==
    LET at == {i \in 1..64 : B64Alphabet[i] = c}
    IN IF at = {} THEN 64 ELSE (CHOOSE i \in at : TRUE) - 1

\* The ASCII code of a character of a payload.
Ascii(c) ==
    LET v == B64Value(c) IN
    IF v < 26 THEN 65 + v
    ELSE IF v < 52 THEN 97 + (v - 26)
    ELSE IF v < 62 THEN 48 + (v - 52)
    ELSE IF v = 62 THEN 43
    ELSE IF v = 63 THEN 47
    ELSE IF c = "=" THEN 61
    ELSE IF c = "," THEN 44
    ELSE IF c = ";" THEN 59
    ELSE IF c = "\"" THEN 34
    ELSE 33

\* The ASCII codes of an atom of a payload: of its one character, or of the
\* word base64.
AtomBytes(c) == IF c = "base64" THEN <<98, 97, 115, 101, 54, 52>> ELSE <<Ascii(c)>>

\* base64.b64encode(data).decode(): three bytes give four characters, and
\* a last group of one or two bytes is padded with =.
RECURSIVE b64encode(_)
b64encode(d) ==
    IF d = <<>> THEN <<>>
    ELSE IF Len(d) = 1
    THEN << B64Alphabet[(d[1] \div 4) + 1], B64Alphabet[((d[1] % 4) * 16) + 1], "=", "=" >>
    ELSE IF Len(d) = 2
    THEN << B64Alphabet[(d[1] \div 4) + 1],
            B64Alphabet[(((d[1] % 4) * 16) + (d[2] \div 16)) + 1],
            B64Alphabet[((d[2] % 16) * 4) + 1], "=" >>
    ELSE << B64Alphabet[(d[1] \div 4) + 1],
            B64Alphabet[(((d[1] % 4) * 16) + (d[2] \div 16)) + 1],
            B64Alphabet[(((d[2] % 16) * 4) + (d[3] \div 64)) + 1],
            B64Alphabet[(d[3] % 64) + 1] >> \o b64encode(SubSeq(d, 4, Len(d)))

\* binascii.a2b_base64 without strict mode, which base64.decodebytes calls:
\* characters outside the alphabet are skipped, the padding that completes a
\* group ends the decoding, and an incomplete last group is an error.
\* (i: next character, quad: characters of the group so far, pads: padding
\* seen in the group, left: the bits left over, out: the bytes so far.)
RECURSIVE a2b_base64(_, _, _, _, _, _)
a2b_base64(s, i, quad, pads, left, out) ==
    IF i > Len(s) THEN [ok |-> quad = 0, data |-> out]
    ELSE IF s[i] = "="
    THEN IF quad >= 2 /\ quad + pads + 1 >= 4
         THEN [ok |-> TRUE, data |-> out]
         ELSE a2b_base64(s, i + 1, quad, IF quad >= 2 THEN pads + 1 ELSE pads, left, out)
    ELSE IF B64Value(s[i]) = 64
    THEN a2b_base64(s, i + 1, quad, pads, left, out)
    ELSE LET v == B64Value(s[i]) IN
         CASE quad = 0 -> a2b_base64(s, i + 1, 1, 0, v, out)
           [] quad = 1 -> a2b_base64(s, i + 1, 2, 0, v % 16,
                                     Append(out, (left * 4) + (v \div 16)))
           [] quad = 2 -> a2b_base64(s, i + 1, 3, 0, v % 4,
                                     Append(out, (left * 16) + (v \div 4)))
           [] OTHER    -> a2b_base64(s, i + 1, 0, 0, 0, Append(out, (left * 64) + v))

(***************************************************************************)
(* MIME types, filenames and data URIs                                     *)
(***************************************************************************)
Mime(type, subtype) == <<type, "/", subtype>>
DefaultMime == <<"text", "/", "plain", ";", "charset", "=", "UTF-8">>
SPOILER_TAG == <<"SPOILER_">>

\* The signatures guess_mimetype_from_data looks for.
Magic ==
    [png    |-> <<137, 80, 78, 71, 13, 10, 26, 10>>,
     exif   |-> <<69, 120, 105, 102>>,
     jfif   |-> <<74, 70, 73, 70>>,
     gif87a |-> <<71, 73, 70, 56, 55, 97>>,
     gif89a |-> <<71, 73, 70, 56, 57, 97>>,
     riff   |-> <<82, 73, 70, 70>>,
     webp   |-> <<87, 69, 66, 80>>]

\* guess_mimetype_from_data with a plausible slip: the JPEG marker is looked
\* for at the start of the data.
GuessFromLeadingBytesOnly(bytes) ==
    IF StartsWith(bytes, Magic.png) THEN Mime("image", "png")
    ELSE IF StartsWith(bytes, Magic.exif) \/ StartsWith(bytes, Magic.jfif)
    THEN Mime("image", "jpeg")
    ELSE IF StartsWith(bytes, Magic.gif87a) \/ StartsWith(bytes, Magic.gif89a)
    THEN Mime("image", "gif")
    ELSE IF StartsWith(bytes, Magic.riff) /\ StartsWithAt(bytes, 8, Magic.webp)
    THEN Mime("image", "webp")
    ELSE NoneStr

guess_mimetype_from_data(bytes) ==
    IF StartsWith(bytes, Magic.png) THEN Mime("image", "png")
    ELSE IF StartsWithAt(bytes, 6, Magic.exif) \/ StartsWithAt(bytes, 6, Magic.jfif)
    THEN Mime("image", "jpeg")
    ELSE IF StartsWith(bytes, Magic.gif87a) \/ StartsWith(bytes, Magic.gif89a)
    THEN Mime("image", "gif")
    ELSE IF StartsWith(bytes, Magic.riff) /\ StartsWithAt(bytes, 8, Magic.webp)
    THEN Mime("image", "webp")
    ELSE NoneStr

\* mimetypes.guess_extension, for the types of this model.
guess_file_extension(mimetype) ==
    CASE mimetype = Mime("image", "png") -> <<".", "png">>
      [] mimetype = Mime("image", "jpeg") -> <<".", "jpg">>
      [] mimetype = Mime("image", "gif") -> <<".", "gif">>
      [] mimetype = Mime("image", "webp") -> <<".", "webp">>
      [] mimetype = Mime("text", "plain") -> <<".", "txt">>
      [] OTHER -> NoneStr

\* mimetypes.guess_type of a filename, for the extensions of this model.
guess_mimetype_from_filename(name) ==
    CASE EndsWith(name, <<".", "png">>) /\ Len(name) > 2 -> Mime("image", "png")
      [] EndsWith(name, <<".", "jpg">>) /\ Len(name) > 2 -> Mime("image", "jpeg")
      [] EndsWith(name, <<".", "gif">>) /\ Len(name) > 2 -> Mime("image", "gif")
      [] EndsWith(name, <<".", "webp">>) /\ Len(name) > 2 -> Mime("image", "webp")
      [] EndsWith(name, <<".", "txt">>) /\ Len(name) > 2 -> Mime("text", "plain")
      [] OTHER -> NoneStr

\* generate_filename_from_details(mimetype=..., extension=None, data=...):
\* uuid stands for the string time.uuid() returns.
generate_filename_from_details(mimetype, bytes, uuid) ==
    LET m   == IF mimetype = NoneStr THEN guess_mimetype_from_data(bytes) ELSE mimetype
        ext == IF m # NoneStr THEN guess_file_extension(m) ELSE NoneStr
    IN IF ext = NoneStr \/ ext = <<>> THEN uuid
       ELSE IF ext[1] # "." THEN uuid \o <<".">> \o ext
       ELSE uuid \o ext

\* to_data_uri: the URI, or TypeError when no mimetype is given and none is
\* guessed.
to_data_uri(bytes, mimetype) ==
    LET m == IF mimetype = NoneStr THEN guess_mimetype_from_data(bytes) ELSE mimetype
    IN IF m = NoneStr THEN [exc |-> "TypeError", uri |-> <<>>]
       ELSE [exc |-> "none",
             uri |-> <<"data", ":">> \o m \o <<";", "base64", ",">> \o b64encode(bytes)]

\* urllib.request.urlopen of a data URI (DataHandler.data_open) and
\* response.read(): the part after the first comma is the payload, decoded
\* as base64 when the part before it ends with ;base64.  No comma raises
\* ValueError, a bad payload binascii.Error.  (No payload of this model
\* holds a %, so unquoting changes nothing.)
DataOpen(uri) ==
    LET rest  == SubSeq(uri, Find(uri, ":", Len(uri)) + 1, Len(uri))
        comma == Find(rest, ",", Len(rest))
        media == SubSeq(rest, 1, comma - 1)
        raw   == SubSeq(rest, comma + 1, Len(rest))
        dec   == a2b_base64(raw, 1, 0, 0, 0, <<>>)
    IN IF comma = 0 THEN [exc |-> "ValueError", data |-> <<>>]
       ELSE IF EndsWith(media, <<";", "base64">>)
       THEN IF dec.ok THEN [exc |-> "none", data |-> dec.data]
            ELSE [exc |-> "binascii.Error", data |-> <<>>]
       ELSE [exc |-> "none", data |-> Flatten([i \in 1..Len(raw) |-> AtomBytes(raw[i])])]

\* mimetypes.guess_type of a data URI: the text before the first ; or , of
\* the part after the scheme, or text/plain when that is no type/subtype.
GuessTypeOfDataUri(uri) ==
    LET rest  == SubSeq(uri, Find(uri, ":", Len(uri)) + 1, Len(uri))
        comma == Find(rest, ",", Len(rest))
        semi  == Find(rest, ";", comma - 1)
        type  == IF semi > 0 THEN SubSeq(rest, 1, semi - 1) ELSE SubSeq(rest, 1, comma - 1)
    IN IF comma = 0 THEN NoneStr
       ELSE IF (\E i \in 1..Len(type) : type[i] = "=") \/ ~(\E i \in 1..Len(type) : type[i] = "/")
       THEN Mime("text", "plain")
       ELSE type

(***************************************************************************)
(* Resources.  A Resource object is a record; the fields a class does not  *)
(* have hold NoneStr (strings) or <<>> (bytes).                            *)
(***************************************************************************)
\* bool(s) for an optional str: None and "" are falsy.
Truthy(s) == s # NoneStr /\ s # <<>>

\* pathlib.Path(s), as the atoms of str(path): repeated and trailing
\* separators are dropped, and the empty path is ".".
RECURSIVE PurePath(_)
PurePath(s) ==
    IF s = <<>> THEN <<".">>
    ELSE IF Len(s) > 1 /\ s[Len(s)] = "/" THEN PurePath(SubSeq(s, 1, Len(s) - 1))
    ELSE IF \E i \in 1..(Len(s) - 1) : s[i] = "/" /\ s[i + 1] = "/"
    THEN LET i == CHOOSE j \in 1..(Len(s) - 1) : s[j] = "/" /\ s[j + 1] = "/"
         IN PurePath(SubSeq(s, 1, i) \o SubSeq(s, i + 2, Len(s)))
    ELSE s

\* os.path.basename(s): what follows the last separator.
basename(s) ==
    LET seps == {i \in 1..Len(s) : s[i] = "/"}
        last == IF seps = {} THEN 0 ELSE CHOOSE i \in seps : \A j \in seps : j <= i
    IN SubSeq(s, last + 1, Len(s))

\* pathlib.PurePath.name of a path made by PurePath.
PathName(p) == IF p = <<".">> THEN <<>> ELSE basename(p)

\* urllib.parse.urlparse(u).path of scheme://netloc/path?query#fragment.
UrlPath(u) ==
    LET rest  == SubSeq(u, 5, Len(u))
        ends  == {i \in 1..Len(rest) : rest[i] \in {"?", "#"}}
        stop  == IF ends = {} THEN Len(rest) + 1 ELSE CHOOSE i \in ends : \A j \in ends : i <= j
        noq   == SubSeq(rest, 1, stop - 1)
        slash == Find(noq, "/", Len(noq))
    IN IF slash = 0 THEN <<>> ELSE SubSeq(noq, slash, Len(noq))

\* File.__init__, Bytes.__init__ (for raw bytes) and URL.__init__.
File(path, fname, spoiler) ==
    [cls |-> "File", _url |-> NoneStr, path |-> path, _filename |-> fname,
     data |-> <<>>, mimetype |-> NoneStr, is_spoiler |-> spoiler]

Bytes(bytes, fname, mimetype, spoiler) ==
    [cls |-> "Bytes", _url |-> NoneStr, path |-> NoneStr, _filename |-> fname,
     data |-> bytes,
     mimetype |-> IF mimetype # NoneStr THEN mimetype
                  ELSE IF guess_mimetype_from_filename(fname) # NoneStr
                  THEN guess_mimetype_from_filename(fname)
                  ELSE DefaultMime,
     is_spoiler |-> spoiler]

URL(u, fname) ==
    [cls |-> "URL", _url |-> u, path |-> NoneStr, _filename |-> fname,
     data |-> <<>>, mimetype |-> NoneStr, is_spoiler |-> FALSE]

\* The filename property, with a plausible slip: File marks only an explicit
\* filename as a spoiler.
FilenameSpoilsExplicitOnly(o) ==
    CASE o.cls = "URL" ->
           IF Truthy(o._filename) THEN o._filename ELSE basename(UrlPath(o._url))
      [] o.cls = "File" ->
           IF Truthy(o._filename)
           THEN (IF o.is_spoiler THEN SPOILER_TAG ELSE <<>>) \o o._filename
           ELSE PathName(o.path)
      [] o.cls = "Bytes" ->
           (IF o.is_spoiler THEN SPOILER_TAG ELSE <<>>) \o o._filename

\* The filename property of URL, File and Bytes.
filename(o) ==
    CASE o.cls = "URL" ->
           IF Truthy(o._filename) THEN o._filename ELSE basename(UrlPath(o._url))
      [] o.cls = "File" ->
           (IF o.is_spoiler THEN SPOILER_TAG ELSE <<>>)
               \o (IF Truthy(o._filename) THEN o._filename ELSE PathName(o.path))
      [] o.cls = "Bytes" ->
           (IF o.is_spoiler THEN SPOILER_TAG ELSE <<>>) \o o._filename

\* The url property of URL, File and Bytes.
url(o) ==
    IF o.cls = "URL" THEN o._url
    ELSE <<"attachment", ":", "/", "/">> \o filename(o)

\* Resource.__eq__ for two Resources, and what Resource.__hash__ hashes.
__eq__(a, b) == url(a) = url(b)
__hash__(o) == <<o.cls, url(o)>>

(***************************************************************************)
(* ensure_resource and Bytes.from_data_uri.  An argument is a record: ty   *)
(* is its Python type, ref the Resource it is (an index of the heap), v    *)
(* its bytes (its code points for a StringIO) and s its text.              *)
(***************************************************************************)
RAWISH_TYPES == {"bytes", "bytearray", "memoryview", "BytesIO", "StringIO"}
Arg(ty, ref, v, s) == [ty |-> ty, ref |-> ref, v |-> v, s |-> s]
NoObj ==
    [cls |-> "None", _url |-> NoneStr, path |-> NoneStr, _filename |-> NoneStr,
     data |-> <<>>, mimetype |-> NoneStr, is_spoiler |-> FALSE]

\* time.uuid() for the n-th name generated.
Uuid(n) == <<"uuid", ToString(n)>>

\* unwrap_bytes: a StringIO is read and encoded as UTF-8.
unwrap_bytes(x) == IF x.ty = "StringIO" THEN Utf8(x.v) ELSE x.v

\* str(x) for a str and for a pathlib.Path.
Str(x) == IF x.ty = "Path" THEN PurePath(x.s) ELSE x.s

\* Bytes.from_data_uri: the Bytes made, or the exception raised.
from_data_uri(uri, fname, uuid) ==
    LET r    == DataOpen(uri)
        mime == GuessTypeOfDataUri(uri)
        name == IF fname = NoneStr
                THEN generate_filename_from_details(mime, r.data, uuid)
                ELSE fname
    IN IF ~StartsWith(uri, <<"data", ":">>) THEN [exc |-> "ValueError", obj |-> NoObj]
       ELSE IF r.exc # "none" THEN [exc |-> "ValueError", obj |-> NoObj]
       ELSE [exc |-> "none", obj |-> Bytes(r.data, name, mime, FALSE)]

\* str.startswith(("https://", "http://")), and with a plausible slip:
\* only https:// is looked for.
IsHttpsString(s) == StartsWith(s, <<"https", ":", "/", "/">>)
IsUrlString(s) ==
    StartsWith(s, <<"https", ":", "/", "/">>) \/ StartsWith(s, <<"http", ":", "/", "/">>)

\* `except ValueError: pass`, and with a plausible slip: nothing is caught.
AbsorbsNothing(exc) == FALSE
Absorbed(exc) == exc = "ValueError"

\* What ensure_resource does with an argument that is no Resource: the
\* object made, or the exception raised.
Convert(x, uuid) ==
    LET d   == unwrap_bytes(x)
        str == Str(x)
        dec == from_data_uri(str, NoneStr, uuid)
        p   == PurePath(str)
    IN IF x.ty \in RAWISH_TYPES
       THEN [exc |-> "none",
             obj |-> Bytes(d, generate_filename_from_details(NoneStr, d, uuid), NoneStr, FALSE)]
       ELSE IF IsUrlString(str) THEN [exc |-> "none", obj |-> URL(str, NoneStr)]
       ELSE IF StartsWith(str, <<"data", ":">>) /\ dec.exc = "none" THEN dec
       ELSE IF StartsWith(str, <<"data", ":">>) /\ ~Absorbed(dec.exc) THEN dec
       ELSE [exc |-> "none", obj |-> File(p, PathName(p), FALSE)]

\* ensure_resource with a plausible slip: a Resource is converted like any
\* other value, through its url.
EnsureResourceRewraps(x, uuid) ==
    LET c == Convert(IF x.ty = "Resource" THEN Arg("str", 0, <<>>, url(heap[x.ref])) ELSE x,
                     uuid)
    IN [exc |-> c.exc, ref |-> 0, obj |-> c.obj]

\* ensure_resource: ref is the object returned when it is the argument
\* itself, and 0 when obj is a new object.
ensure_resource(x, uuid) ==
    IF x.ty = "Resource" THEN [exc |-> "none", ref |-> x.ref, obj |-> heap[x.ref]]
    ELSE LET c == Convert(x, uuid) IN [exc |-> c.exc, ref |-> 0, obj |-> c.obj]

\* The last call made on the heap: op its name, x its argument, mime the
\* mimetype it was given, ret the heap object it returned, obj the object
\* it made, exc what it raised, out the str it returned.
NoCall ==
    [op |-> "none", x |-> Arg("None", 0, <<>>, <<>>), mime |-> NoneStr, ret |-> 0, obj |-> NoObj,
     exc |-> "none", out |-> <<>>]

(***************************************************************************)
(* Paths and the file system.  A path is the sequence of its components,   *)
(* relative to the working directory unless it starts with Home.           *)
(***************************************************************************)
\* The home directory of the user, and the filename of the resource
\* (Resource.filename, the default_filename of the write helpers).
Home == <<"home">>
Filename == "f"

\* The path of a File resource: File.filename is its last component.
FilePath == <<Filename>>

\* pathlib.Path.expanduser: a leading ~ is replaced by the home directory.
expanduser(p) == IF p # <<>> /\ Head(p) = "~" THEN Home \o Tail(p) ELSE p

\* pathlib.Path.joinpath with one component.
joinpath(p, name) == Append(p, name)

\* The paths save() is called with.
SaveArgs ==
    { <<"a">>, <<"d">>, <<"~", "a">>, <<"~", "d">>, <<"~">>, <<"home", "a">> }

\* The paths the file system is modelled at; nothing exists elsewhere.
Nodes ==
    LET base == SaveArgs \cup {expanduser(p) : p \in SaveArgs} \cup {Home}
    IN base \cup {joinpath(p, Filename) : p \in base} \cup {FilePath}

Absent == [ty |-> "absent", c |-> <<>>]
Dir == [ty |-> "dir", c |-> <<>>]
FileOf(c) == [ty |-> "file", c |-> c]

\* What is at path p in the file system f; the working directory is <<>>.
At(f, p) == IF p = <<>> THEN Dir ELSE IF p \in DOMAIN f THEN f[p] ELSE Absent

\* pathlib.Path.is_dir, is_file and exists; none of them expands ~.
is_dir(f, p) == At(f, p).ty = "dir"
is_file(f, p) == At(f, p).ty = "file"
exists(f, p) == At(f, p).ty # "absent"

Parent(p) == SubSeq(p, 1, Len(p) - 1)

\* The OSError of open(p, "wb"), or "none": it creates or truncates p.
OpenWriteError(f, p) ==
    IF p = <<>> THEN "IsADirectoryError"
    ELSE IF is_file(f, Parent(p)) THEN "NotADirectoryError"
    ELSE IF ~is_dir(f, Parent(p)) THEN "FileNotFoundError"
    ELSE IF is_dir(f, p) THEN "IsADirectoryError"
    ELSE "none"

\* No save() is under way.
NoSave ==
    [ pc |-> "idle", path |-> <<>>, force |-> FALSE, file |-> <<>>, written |-> 0,
      exc |-> "none", before |-> <<>>,
      \* File.path of a File resource; how often the file save() opened was closed
      src |-> <<>>, closes |-> 0 ]

NoFiles == [p \in Nodes |-> Absent]

(***************************************************************************)
(* SpecStream: the state after r.stream() was called once per handle       *)
(* instance and before any handle is entered.                              *)
(***************************************************************************)
Kinds == {"file", "web", "bytes", "iterable", "iterator"}

\* The contents drawn for SpecStream: four bytes in two chunks, and the
\* empty resource.
StreamData ==
    { << BytesChunk(<<1, 2>>), BytesChunk(<<3, 4>>) >>,
      << >> }

InitTask ==
    [ pc        |-> "start",  \* where the task is
      depth     |-> 0,        \* scopes of its handle the task is inside
      exc       |-> "none",   \* the exception in flight, or the one that ended the scope
      msg       |-> NoneStr,  \* the message of the TypeError of _assert_bytes
      pointer   |-> None,     \* ThreadedFileReader._pointer of its reader
      stream    |-> None,     \* WebReader.stream of its reader
      ctx       |-> None,     \* __aenter__'s locals ctx and client_session
      closing   |-> None,     \* the file whose close __aexit__ submitted
      buff      |-> <<>>,     \* IteratorReader.__aiter__'s buff
      out       |-> <<>>,     \* the chunks its reader has yielded
      ret       |-> <<>>,     \* what WebReader.read() of its reader returned
      srcPos    |-> 0,        \* _wrap_iter's position in a flat buffer or a fresh iterator
      iter      |-> "new",    \* new | active | eof | failed | read
      \* history, for the properties
      parts     |-> <<>>,     \* the lengths of the source chunks now in buff
      outParts  |-> <<>>,     \* for every chunk of out, the parts it was made of
      cancelled |-> "no" ]    \* no | enter | iter: where the task was cancelled

InitHandle ==
    [ file |-> None, client_session |-> None, client_response_ctx |-> None,
      head_only |-> FALSE,    \* the head_only the handle was made with
      \* history: scopes of this handle now open, entries ever completed
      live |-> 0, entries |-> 0 ]

InitStream ==
    /\ kind \in Kinds
    /\ data \in StreamData
    /\ dataPos = 0
    /\ hof \in {[t \in Tasks |-> t], [t \in Tasks |-> 1]}
    /\ handle = [h \in Handles |-> InitHandle]
    /\ fds = [f \in Fds |-> [state |-> "unused", pos |-> 0, by |-> 0, bound |-> FALSE]]
    /\ conns = [c \in Conns |-> [session |-> "unused", ctx |-> "unused", pos |-> 0,
                                 by |-> 0, entry |-> "none", status |-> 0,
                                 method |-> "none"]]
    /\ task = [t \in Tasks |-> InitTask]
    /\ fs = NoFiles
    /\ sv = NoSave
    /\ heap = <<>>
    /\ call = NoCall

\* Two tasks were handed the same handle instance.
Shared(t) == \E u \in Tasks : u # t /\ hof[u] = hof[t]

FreeFds == {f \in Fds : fds[f].state = "unused"}
FreeConns == {c \in Conns : conns[c].session = "unused"}
Min(s) == CHOOSE x \in s : \A y \in s : x <= y

\* The reader and the locals of a scope are dropped with the scope.
Dropped(tk) ==
    [tk EXCEPT !.pointer = None, !.stream = None, !.ctx = None, !.closing = None,
               !.buff = <<>>, !.out = <<>>, !.srcPos = 0, !.iter = "new",
               !.parts = <<>>, !.outParts = <<>>, !.ret = <<>>]

\* `async with`: __aenter__ raised e, so the scope is not entered and e
\* propagates, into the enclosing scope's body if there is one.
EnterFailed(tk, e) ==
    [tk EXCEPT !.pc = IF tk.depth > 0 THEN "exit" ELSE "done", !.exc = e, !.ctx = None]

\* `async with`: __aenter__ returned a reader; the body starts.
Entered(tk) ==
    [tk EXCEPT !.pc = "body", !.depth = @ + 1, !.exc = "none", !.buff = <<>>,
               !.out = <<>>, !.srcPos = 0, !.iter = "new", !.parts = <<>>,
               !.outParts = <<>>, !.ret = <<>>]

\* `async with`: __aexit__ is over, e is the exception now in flight (the
\* body's, which a returning __aexit__ does not suppress, or __aexit__'s own).
Leave(tk, e) ==
    [Dropped(tk) EXCEPT !.pc = IF tk.depth > 1 THEN "exit" ELSE "done",
                        !.depth = IF @ > 0 THEN @ - 1 ELSE 0, !.exc = e]

HandleEntered(hd) == [hd EXCEPT !.live = @ + 1, !.entries = @ + 1]
HandleLeft(hd, tk) == [hd EXCEPT !.live = IF tk.depth > 0 /\ @ > 0 THEN @ - 1 ELSE @]

CanEnter(t) ==
    \/ task[t].pc = "start"
    \/ task[t].pc = "body" /\ task[t].depth < MaxDepth

(***************************************************************************)
(* _ThreadedFileReaderContextManagerImpl                                   *)
(***************************************************************************)
\* FileAEnter with a plausible slip: self.file is not checked.
FileAEnterUnchecked(t) ==
    /\ kind = "file"
    /\ CanEnter(t)
    /\ task' = [task EXCEPT ![t] = [@ EXCEPT !.pc = "opening"]]
    /\ UNCHANGED <<fs, sv, heap, call, kind, data, dataPos, hof, handle, fds, conns>>

\* __aenter__ up to its await: the check of self.file, then the open is
\* handed to the executor.
FileAEnter(t) ==
    /\ kind = "file"
    /\ CanEnter(t)
    /\ IF handle[hof[t]].file # None
       THEN task' = [task EXCEPT ![t] = EnterFailed(@, "RuntimeError")]
       ELSE task' = [task EXCEPT ![t] = [@ EXCEPT !.pc = "opening"]]
    /\ UNCHANGED <<fs, sv, heap, call, kind, data, dataPos, hof, handle, fds, conns>>

\* _open_read_path ran in the executor and __aenter__ resumes: the open
\* failed (FileNotFoundError, IsADirectoryError), or self.file is set and a
\* reader on the file is returned.
FileOpened(t) ==
    /\ task[t].pc = "opening"
    /\ \/ /\ task' = [task EXCEPT ![t] = EnterFailed(@, "OSError")]
          /\ UNCHANGED <<handle, fds>>
       \/ /\ FreeFds # {}
          /\ LET f == Min(FreeFds) IN
             /\ fds' = [fds EXCEPT ![f] = [state |-> "open", pos |-> 0, by |-> t,
                                           bound |-> TRUE]]
             /\ handle' = [handle EXCEPT ![hof[t]] = HandleEntered([@ EXCEPT !.file = f])]
             /\ task' = [task EXCEPT ![t] = Entered([@ EXCEPT !.pointer = f])]
    /\ UNCHANGED <<fs, sv, heap, call, kind, data, dataPos, hof, conns>>

\* FileAExit with a plausible slip: the file is closed only when the body
\* ended without an exception.
FileAExitOnlyClean(t) ==
    /\ kind = "file"
    /\ task[t].pc = "exit"
    /\ IF handle[hof[t]].file = None \/ task[t].exc # "none"
       THEN /\ task' = [task EXCEPT ![t] =
                           Leave(@, IF handle[hof[t]].file = None
                                    THEN "RuntimeError" ELSE @.exc)]
            /\ handle' = [handle EXCEPT ![hof[t]] = HandleLeft(@, task[t])]
       ELSE /\ task' = [task EXCEPT ![t] = [@ EXCEPT !.pc = "closing",
                                                   !.closing = handle[hof[t]].file]]
            /\ UNCHANGED handle
    /\ UNCHANGED <<fs, sv, heap, call, kind, data, dataPos, hof, fds, conns>>

\* __aexit__ up to its await: the check of self.file, then self.file.close
\* is handed to the executor.
FileAExit(t) ==
    /\ kind = "file"
    /\ task[t].pc = "exit"
    /\ IF handle[hof[t]].file = None
       THEN /\ task' = [task EXCEPT ![t] = Leave(@, "RuntimeError")]
            /\ handle' = [handle EXCEPT ![hof[t]] = HandleLeft(@, task[t])]
       ELSE /\ task' = [task EXCEPT ![t] = [@ EXCEPT !.pc = "closing",
                                                   !.closing = handle[hof[t]].file]]
            /\ UNCHANGED handle
    /\ UNCHANGED <<fs, sv, heap, call, kind, data, dataPos, hof, fds, conns>>

\* FileClosed with a plausible slip: self.file is left as it is.
FileClosedKeepsField(t) ==
    /\ task[t].pc = "closing"
    /\ fds' = [fds EXCEPT ![task[t].closing].state = "closed"]
    /\ handle' = [handle EXCEPT ![hof[t]] = HandleLeft(@, task[t])]
    /\ task' = [task EXCEPT ![t] = Leave(@, @.exc)]
    /\ UNCHANGED <<fs, sv, heap, call, kind, data, dataPos, hof, conns>>

\* The close ran in the executor and __aexit__ resumes: self.file = None.
FileClosed(t) ==
    /\ task[t].pc = "closing"
    /\ fds' = [fds EXCEPT ![task[t].closing].state = "closed"]
    /\ handle' = [handle EXCEPT ![hof[t]] = HandleLeft([@ EXCEPT !.file = None], task[t])]
    /\ task' = [task EXCEPT ![t] = Leave(@, @.exc)]
    /\ UNCHANGED <<fs, sv, heap, call, kind, data, dataPos, hof, conns>>

(***************************************************************************)
(* ThreadedFileReader.__aiter__                                            *)
(***************************************************************************)
\* One step of the loop up to its await: a read of _MAGIC bytes is handed
\* to the executor.
FileReadCall(t) ==
    /\ kind = "file"
    /\ task[t].pc = "body"
    /\ task[t].iter \in {"new", "active"}
    /\ task' = [task EXCEPT ![t] = [@ EXCEPT !.pc = "reading", !.iter = "active"]]
    /\ UNCHANGED <<fs, sv, heap, call, kind, data, dataPos, hof, handle, fds, conns>>

\* The chunk self._pointer.read(_MAGIC) returns from a file at offset pos.
FileChunk(pos) == Slice(Content, pos, _MAGIC)

\* FileReadDone with a plausible slip: the loop breaks after an empty chunk
\* only.
FileReadDoneStopsAtEmpty(t) ==
    /\ kind = "file"
    /\ task[t].pc = "reading"
    /\ LET f == task[t].pointer
           chunk == FileChunk(fds[f].pos) IN
       IF fds[f].state # "open"
       THEN /\ task' = [task EXCEPT ![t] = [@ EXCEPT !.pc = "exit", !.iter = "failed",
                                                   !.exc = "ValueError"]]
            /\ UNCHANGED fds
       ELSE /\ fds' = [fds EXCEPT ![f].pos = @ + Len(chunk)]
            /\ task' = [task EXCEPT ![t] =
                           [@ EXCEPT !.pc = "body", !.out = Append(@, chunk),
                                     !.iter = IF Len(chunk) = 0 THEN "eof" ELSE "active"]]
    /\ UNCHANGED <<fs, sv, heap, call, kind, data, dataPos, hof, handle, conns>>

\* The read returns: the chunk is yielded, and the loop breaks after a chunk
\* shorter than _MAGIC.  A read of a file that was closed raises ValueError.
FileReadDone(t) ==
    /\ kind = "file"
    /\ task[t].pc = "reading"
    /\ LET f == task[t].pointer
           chunk == FileChunk(fds[f].pos) IN
       IF fds[f].state # "open"
       THEN /\ task' = [task EXCEPT ![t] = [@ EXCEPT !.pc = "exit", !.iter = "failed",
                                                   !.exc = "ValueError"]]
            /\ UNCHANGED fds
       ELSE /\ fds' = [fds EXCEPT ![f].pos = @ + Len(chunk)]
            /\ task' = [task EXCEPT ![t] =
                           [@ EXCEPT !.pc = "body", !.out = Append(@, chunk),
                                     !.iter = IF Len(chunk) < _MAGIC THEN "eof" ELSE "active"]]
    /\ UNCHANGED <<fs, sv, heap, call, kind, data, dataPos, hof, handle, conns>>

(***************************************************************************)
(* _WebReaderAsyncReaderContextManagerImpl                                 *)
(***************************************************************************)
\* The response statuses the transport answers with.
Statuses == {199, 200, 400, 401, 403, 404, 429, 500, 600}

\* `200 <= resp.status < 400`
StatusOk(s) == 200 <= s /\ s < 400

\* net.generate_error_response: the error raised for a response whose
\* status is not let through, as WebResource.stream documents it.
generate_error_response(s) ==
    CASE s = 400 -> "BadRequestError"
      [] s = 401 -> "UnauthorizedError"
      [] s = 403 -> "ForbiddenError"
      [] s = 404 -> "NotFoundError"
      [] 400 <= s /\ s < 500 -> "ClientHTTPResponseError"
      [] 500 <= s /\ s < 600 -> "InternalServerError"
      [] OTHER -> "HTTPResponseError"

\* __aenter__ up to its await: a ClientSession is created, then the request
\* context ctx of a HEAD or a GET, and ctx.__aenter__() is awaited.  Nothing
\* is checked first.
WebAEnter(t) ==
    /\ kind = "web"
    /\ CanEnter(t)
    /\ FreeConns # {}
    /\ LET c == Min(FreeConns) IN
       /\ conns' = [conns EXCEPT ![c] = [session |-> "open", ctx |-> "created", pos |-> 0,
                                         by |-> t, entry |-> "pending", status |-> 0,
                                         method |-> IF handle[hof[t]].head_only
                                                    THEN "HEAD" ELSE "GET"]]
       /\ task' = [task EXCEPT ![t] =
                      [@ EXCEPT !.ctx = c, !.pc = "requesting"]]
    /\ UNCHANGED <<fs, sv, heap, call, kind, data, dataPos, hof, handle, fds>>

\* ctx.__aenter__() is over: it raised, or it returned a response, whose
\* status either lets __aenter__ store ctx and the session in the handle and
\* return a reader, or makes it raise the error of that status.
WebResponded(t) ==
    /\ task[t].pc = "requesting"
    /\ LET c == task[t].ctx IN
       \/ /\ task' = [task EXCEPT ![t] = [@ EXCEPT !.pc = "enterfail", !.exc = "ClientError"]]
          /\ UNCHANGED <<handle, conns>>
       \/ \E s \in Statuses :
            /\ conns' = [conns EXCEPT ![c].ctx = "entered", ![c].status = s,
                                      ![c].entry = IF StatusOk(s) THEN "ok" ELSE @]
            /\ IF StatusOk(s)
               THEN /\ handle' = [handle EXCEPT ![hof[t]] =
                                     HandleEntered([@ EXCEPT !.client_response_ctx = c,
                                                             !.client_session = c])]
                    /\ task' = [task EXCEPT ![t] = Entered([@ EXCEPT !.stream = c])]
               ELSE /\ task' = [task EXCEPT ![t] =
                                   [@ EXCEPT !.pc = "enterfail",
                                              !.exc = generate_error_response(s)]]
                    /\ UNCHANGED handle
    /\ UNCHANGED <<fs, sv, heap, call, kind, data, dataPos, hof, fds>>

\* `except Exception`: ctx is not None, so ctx.__aexit__ is awaited, on a
\* context that may never have been entered; if that returns, the session is
\* closed and the error re-raised; if it raises, its error propagates at
\* once and client_session.close() is not reached.
WebEnterFailed(t) ==
    /\ task[t].pc = "enterfail"
    /\ LET c == task[t].ctx IN
       \/ /\ conns' = [conns EXCEPT ![c].ctx = IF @ = "entered" THEN "exited" ELSE @,
                                    ![c].session = "closed", ![c].entry = "failed"]
          /\ task' = [task EXCEPT ![t] = EnterFailed(@, @.exc)]
       \/ /\ conns' = [conns EXCEPT ![c].entry = "failed"]
          /\ task' = [task EXCEPT ![t] = EnterFailed(@, "CloseError")]
    /\ UNCHANGED <<fs, sv, heap, call, kind, data, dataPos, hof, handle, fds>>

\* __aexit__ up to the end of its first await: self._client_response_ctx is
\* NotImplemented on a handle never entered (AttributeError); else its
\* __aexit__ is awaited, and an error it raises propagates at once.
WebAExit(t) ==
    /\ kind = "web"
    /\ task[t].pc = "exit"
    /\ LET c == handle[hof[t]].client_response_ctx
           tk == task[t] IN
       IF c = None
       THEN /\ task' = [task EXCEPT ![t] = Leave(tk, "AttributeError")]
            /\ handle' = [handle EXCEPT ![hof[t]] = HandleLeft(@, task[t])]
            /\ UNCHANGED conns
       ELSE \/ /\ conns' = [conns EXCEPT ![c].ctx = "exited"]
               /\ task' = [task EXCEPT ![t] = [tk EXCEPT !.pc = "sessclosing"]]
               /\ UNCHANGED handle
            \/ /\ task' = [task EXCEPT ![t] = Leave(tk, "CloseError")]
               /\ handle' = [handle EXCEPT ![hof[t]] = HandleLeft(@, task[t])]
               /\ UNCHANGED conns
    /\ UNCHANGED <<fs, sv, heap, call, kind, data, dataPos, hof, fds>>

\* __aexit__'s second await: self._client_session.close().
WebSessionClosed(t) ==
    /\ task[t].pc = "sessclosing"
    /\ conns' = [conns EXCEPT ![handle[hof[t]].client_session].session = "closed"]
    /\ handle' = [handle EXCEPT ![hof[t]] = HandleLeft(@, task[t])]
    /\ task' = [task EXCEPT ![t] = Leave(@, @.exc)]
    /\ UNCHANGED <<fs, sv, heap, call, kind, data, dataPos, hof, fds>>

(***************************************************************************)
(* WebReader.__aiter__ and WebReader.read: the transport hands over the    *)
(* body in the chunks of data.                                             *)
(***************************************************************************)
\* WebReadCall with a plausible slip: head_only is not looked at.
WebReadCallIgnoresHeadOnly(t) ==
    /\ kind = "web"
    /\ task[t].pc = "body"
    /\ task[t].iter \in {"new", "active"}
    /\ task' = [task EXCEPT ![t] =
                   IF conns[@.stream].pos >= Len(data)
                   THEN [@ EXCEPT !.iter = "eof"]
                   ELSE [@ EXCEPT !.pc = "reading", !.iter = "active"]]
    /\ UNCHANGED <<fs, sv, heap, call, kind, data, dataPos, hof, handle, fds, conns>>

\* WebReadCall with a plausible slip: at_eof() is not looked at, and a
\* chunk is awaited that never comes.
WebReadCallPastEof(t) ==
    /\ kind = "web"
    /\ task[t].pc = "body"
    /\ task[t].iter \in {"new", "active"}
    /\ handle[hof[t]].head_only \/ conns[task[t].stream].pos < Len(data)
    /\ task' = [task EXCEPT ![t] =
                   IF handle[hof[t]].head_only
                   THEN [@ EXCEPT !.iter = "eof", !.out = Append(@, <<>>)]
                   ELSE [@ EXCEPT !.pc = "reading", !.iter = "active"]]
    /\ UNCHANGED <<fs, sv, heap, call, kind, data, dataPos, hof, handle, fds, conns>>

\* `if self.head_only: yield b""`, after which the generator ends; else
\* `while not self.stream.at_eof()` and the call of readchunk().
WebReadCall(t) ==
    /\ kind = "web"
    /\ task[t].pc = "body"
    /\ task[t].iter \in {"new", "active"}
    /\ task' = [task EXCEPT ![t] =
                   IF handle[hof[t]].head_only
                   THEN [@ EXCEPT !.iter = "eof", !.out = Append(@, <<>>)]
                   ELSE IF conns[@.stream].pos >= Len(data)
                   THEN [@ EXCEPT !.iter = "eof"]
                   ELSE [@ EXCEPT !.pc = "reading", !.iter = "active"]]
    /\ UNCHANGED <<fs, sv, heap, call, kind, data, dataPos, hof, handle, fds, conns>>

\* WebReader.read() on a reader not yet iterated: b"" if head_only, else
\* `await self.stream.read()`, which returns what is left of the body.
WebRead(t) ==
    /\ kind = "web"
    /\ task[t].pc = "body"
    /\ task[t].iter = "new"
    /\ LET c == task[t].stream IN
       IF handle[hof[t]].head_only
       THEN /\ task' = [task EXCEPT ![t] = [@ EXCEPT !.iter = "read", !.ret = <<>>]]
            /\ UNCHANGED conns
       ELSE IF conns[c].ctx # "entered" \/ conns[c].session # "open"
       THEN /\ task' = [task EXCEPT ![t] = [@ EXCEPT !.pc = "exit", !.iter = "failed",
                                                   !.exc = "ClientError"]]
            /\ UNCHANGED conns
       ELSE /\ conns' = [conns EXCEPT ![c].pos = Len(data)]
            /\ task' = [task EXCEPT ![t] =
                           [@ EXCEPT !.iter = "read",
                                     !.ret = Flatten([i \in 1..(Len(data) - conns[c].pos) |->
                                                         data[conns[c].pos + i].v])]]
    /\ UNCHANGED <<fs, sv, heap, call, kind, data, dataPos, hof, handle, fds>>

\* readchunk() returns the next chunk, which is yielded; on a response that
\* was released or whose session was closed it raises.
WebReadDone(t) ==
    /\ kind = "web"
    /\ task[t].pc = "reading"
    /\ LET c == task[t].stream IN
       IF conns[c].ctx # "entered" \/ conns[c].session # "open"
       THEN /\ task' = [task EXCEPT ![t] = [@ EXCEPT !.pc = "exit", !.iter = "failed",
                                                   !.exc = "ClientError"]]
            /\ UNCHANGED conns
       ELSE /\ conns' = [conns EXCEPT ![c].pos = @ + 1]
            /\ task' = [task EXCEPT ![t] =
                           [@ EXCEPT !.pc = "body",
                                     !.out = Append(@, data[conns[c].pos + 1].v)]]
    /\ UNCHANGED <<fs, sv, heap, call, kind, data, dataPos, hof, handle, fds>>

(***************************************************************************)
(* _NoOpAsyncReaderContextManagerImpl, the handle of Bytes.stream()        *)
(***************************************************************************)
InMemory == {"bytes", "iterable", "iterator"}

\* __aenter__: `return self.impl`.
NoOpAEnter(t) ==
    /\ kind \in InMemory
    /\ CanEnter(t)
    /\ handle' = [handle EXCEPT ![hof[t]] = HandleEntered(@)]
    /\ task' = [task EXCEPT ![t] = Entered(@)]
    /\ UNCHANGED <<fs, sv, heap, call, kind, data, dataPos, hof, fds, conns>>

\* __aexit__: `pass`.
NoOpAExit(t) ==
    /\ kind \in InMemory
    /\ task[t].pc = "exit"
    /\ handle' = [handle EXCEPT ![hof[t]] = HandleLeft(@, task[t])]
    /\ task' = [task EXCEPT ![t] = Leave(@, @.exc)]
    /\ UNCHANGED <<fs, sv, heap, call, kind, data, dataPos, hof, fds, conns>>

(***************************************************************************)
(* IteratorReader: _wrap_iter and the re-buffering loop of __aiter__.      *)
(*   kind "bytes"     self.data is a flat buffer, sliced by _wrap_iter;    *)
(*   kind "iterable"  self.data is a reusable iterable: every _wrap_iter   *)
(*                    iterates it from its start;                          *)
(*   kind "iterator"  self.data is a one-shot iterator or generator: every *)
(*                    _wrap_iter calls next() on the one object Bytes.data.*)
(***************************************************************************)
\* How many chunks _wrap_iter produces from the start of the data.
WrapLen ==
    IF kind = "bytes" THEN (Len(Content) + _MAGIC - 1) \div _MAGIC ELSE Len(data)

\* The i-th chunk (from 1) of the data as the source produces it.
WrapItem(i) ==
    IF kind = "bytes" THEN BytesChunk(Slice(Content, (i - 1) * _MAGIC, _MAGIC)) ELSE data[i]

\* SharesIterator with a plausible slip: a re-iterable producer and a flat
\* buffer are drained through one iterator kept with the data, too.
SharesIteratorAlways == kind \in InMemory

\* _wrap_iter calls next() on self.data itself (the AsyncIterator, Iterator
\* and generator branches) instead of iterating it from its start.
SharesIterator == kind = "iterator"

\* The position the _wrap_iter of task t's reader continues from.
WrapPos(t) == IF SharesIterator THEN dataPos ELSE task[t].srcPos

\* BuffFull with plausible slips: an off-by-one comparison, and a loop that
\* stops at the first byte.
BuffFullOffByOne(b) == Len(b) > _MAGIC
BuffFullNonEmpty(b) == Len(b) > 0

\* The negation of the inner loop's condition `len(buff) < _MAGIC`.
BuffFull(b) == Len(b) >= _MAGIC

\* IterPull with a plausible slip: the TypeError of _assert_bytes ends the
\* loop as StopAsyncIteration does.
IterPullSwallowsTypeError(t) ==
    /\ kind \in InMemory
    /\ task[t].pc = "body"
    /\ task[t].iter \in {"new", "active"}
    /\ ~BuffFull(task[t].buff)
    /\ WrapPos(t) < WrapLen
    /\ LET c == WrapItem(WrapPos(t) + 1) IN
       /\ task' = [task EXCEPT ![t] =
                      IF kind # "bytes" /\ AssertBytesRaises(c)
                      THEN [@ EXCEPT !.iter = "eof", !.buff = <<>>, !.parts = <<>>,
                                     !.out = IF task[t].buff # <<>>
                                             THEN Append(@, task[t].buff) ELSE @,
                                     !.outParts = IF task[t].buff # <<>>
                                                  THEN Append(@, task[t].parts) ELSE @,
                                     !.srcPos = IF SharesIterator THEN @ ELSE @ + 1]
                      ELSE [@ EXCEPT !.iter = "active", !.buff = @ \o _assert_bytes(c),
                                     !.parts = Append(@, Len(_assert_bytes(c))),
                                     !.srcPos = IF SharesIterator THEN @ ELSE @ + 1]]
       /\ dataPos' = IF SharesIterator THEN dataPos + 1 ELSE dataPos
    /\ UNCHANGED <<fs, sv, heap, call, kind, data, hof, handle, fds, conns>>

\* len(buff) < _MAGIC: `chunk = await iterator.__anext__()`, `buff.extend(chunk)`;
\* _assert_bytes raises TypeError, with the name of the chunk's type in its
\* message, on a chunk that is neither bytes nor str, and nothing of
\* __aiter__ catches it.
IterPull(t) ==
    /\ kind \in InMemory
    /\ task[t].pc = "body"
    /\ task[t].iter \in {"new", "active"}
    /\ ~BuffFull(task[t].buff)
    /\ WrapPos(t) < WrapLen
    /\ LET c == WrapItem(WrapPos(t) + 1) IN
       /\ task' = [task EXCEPT ![t] =
                      IF kind # "bytes" /\ AssertBytesRaises(c)
                      THEN [@ EXCEPT !.pc = "exit", !.iter = "failed", !.exc = "TypeError",
                                     !.msg = <<"Expected bytes but received ", c.ty>>,
                                     !.srcPos = IF SharesIterator THEN @ ELSE @ + 1]
                      ELSE [@ EXCEPT !.iter = "active", !.buff = @ \o _assert_bytes(c),
                                     !.parts = Append(@, Len(_assert_bytes(c))),
                                     !.srcPos = IF SharesIterator THEN @ ELSE @ + 1]]
       /\ dataPos' = IF SharesIterator THEN dataPos + 1 ELSE dataPos
    /\ UNCHANGED <<fs, sv, heap, call, kind, data, hof, handle, fds, conns>>

\* len(buff) >= _MAGIC: `yield bytes(buff)`, `buff.clear()`.
IterYield(t) ==
    /\ kind \in InMemory
    /\ task[t].pc = "body"
    /\ task[t].iter = "active"
    /\ BuffFull(task[t].buff)
    /\ task' = [task EXCEPT ![t] =
                   [@ EXCEPT !.out = Append(@, task[t].buff), !.buff = <<>>,
                             !.outParts = Append(@, task[t].parts), !.parts = <<>>]]
    /\ UNCHANGED <<fs, sv, heap, call, kind, data, dataPos, hof, handle, fds, conns>>

\* IterStop with a plausible slip: what is left in buff when the source
\* ends is not yielded.
IterStopDropsRemainder(t) ==
    /\ kind \in InMemory
    /\ task[t].pc = "body"
    /\ task[t].iter \in {"new", "active"}
    /\ ~BuffFull(task[t].buff)
    /\ WrapPos(t) >= WrapLen
    /\ task' = [task EXCEPT ![t] = [@ EXCEPT !.iter = "eof", !.buff = <<>>, !.parts = <<>>]]
    /\ UNCHANGED <<fs, sv, heap, call, kind, data, dataPos, hof, handle, fds, conns>>

\* The source is exhausted (StopAsyncIteration): `if buff: yield bytes(buff)`.
IterStop(t) ==
    /\ kind \in InMemory
    /\ task[t].pc = "body"
    /\ task[t].iter \in {"new", "active"}
    /\ ~BuffFull(task[t].buff)
    /\ WrapPos(t) >= WrapLen
    /\ task' = [task EXCEPT ![t] =
                   [@ EXCEPT !.iter = "eof", !.buff = <<>>, !.parts = <<>>,
                             !.out = IF task[t].buff # <<>> THEN Append(@, task[t].buff) ELSE @,
                             !.outParts = IF task[t].buff # <<>>
                                          THEN Append(@, task[t].parts) ELSE @]]
    /\ UNCHANGED <<fs, sv, heap, call, kind, data, dataPos, hof, handle, fds, conns>>

(***************************************************************************)
(* The consumer: `async with handle as reader:` around `async for chunk in *)
(* reader:`, and the calls a misusing caller makes.                        *)
(***************************************************************************)
\* The body raises, mid-iteration or not.
ConsumerRaise(t) ==
    /\ task[t].pc = "body"
    /\ task' = [task EXCEPT ![t] = [@ EXCEPT !.pc = "exit", !.exc = "ConsumerError"]]
    /\ UNCHANGED <<fs, sv, heap, call, kind, data, dataPos, hof, handle, fds, conns>>

\* The body ends: after the last chunk, or earlier (break).
BodyEnd(t) ==
    /\ task[t].pc = "body"
    /\ task' = [task EXCEPT ![t] = [@ EXCEPT !.pc = "exit"]]
    /\ UNCHANGED <<fs, sv, heap, call, kind, data, dataPos, hof, handle, fds, conns>>

\* The task is cancelled while its iteration is suspended: on the executor's
\* read, on the network read, or on the next element of an asynchronous
\* producer.  CancelledError is raised in the body.
CancelIter(t) ==
    /\ \/ task[t].pc = "reading"
       \/ task[t].pc = "body" /\ kind \in {"iterable", "iterator"} /\ task[t].iter = "active"
    /\ task' = [task EXCEPT ![t] = [@ EXCEPT !.pc = "exit", !.exc = "CancelledError",
                                           !.cancelled = "iter"]]
    /\ UNCHANGED <<fs, sv, heap, call, kind, data, dataPos, hof, handle, fds, conns>>

\* The task is cancelled while __aenter__ awaits the open or the request.
\* The executor's thread is not interrupted: it may still open the file,
\* which nothing refers to any more.  `except Exception` does not catch
\* CancelledError.
CancelEnter(t) ==
    /\ task[t].pc \in {"opening", "requesting"}
    /\ task' = [task EXCEPT ![t] = EnterFailed([@ EXCEPT !.cancelled = "enter"], "CancelledError")]
    /\ \/ UNCHANGED fds
       \/ /\ task[t].pc = "opening"
          /\ FreeFds # {}
          /\ fds' = [fds EXCEPT ![Min(FreeFds)] =
                        [state |-> "open", pos |-> 0, by |-> t, bound |-> FALSE]]
    /\ conns' = IF task[t].pc = "requesting"
                THEN [conns EXCEPT ![task[t].ctx].entry = "cancelled"] ELSE conns
    /\ UNCHANGED <<fs, sv, heap, call, kind, data, dataPos, hof, handle>>

\* A caller invokes __aexit__ without having entered.
ExitUnentered(t) ==
    /\ task[t].pc = "start"
    /\ task' = [task EXCEPT ![t] = [@ EXCEPT !.pc = "exit"]]
    /\ UNCHANGED <<fs, sv, heap, call, kind, data, dataPos, hof, handle, fds, conns>>

NextStream ==
    \E t \in Tasks :
        \/ FileAEnter(t) \/ FileOpened(t) \/ FileAExit(t) \/ FileClosed(t)
        \/ FileReadCall(t) \/ FileReadDone(t)
        \/ WebAEnter(t) \/ WebResponded(t) \/ WebEnterFailed(t)
        \/ WebAExit(t) \/ WebSessionClosed(t)
        \/ WebReadCall(t) \/ WebReadDone(t)
        \/ NoOpAEnter(t) \/ NoOpAExit(t)
        \/ IterPull(t) \/ IterYield(t) \/ IterStop(t)
        \/ ConsumerRaise(t) \/ BodyEnd(t) \/ CancelIter(t) \/ CancelEnter(t)
        \/ ExitUnentered(t)

SpecStream == InitStream /\ [][NextStream]_vars

(***************************************************************************)
(* Properties of SpecStream                                                *)
(***************************************************************************)
\* C1: a file that an entry of a local-file handle opened (the handle being
\* the task's own, from its own stream() call) stays open only while the
\* task is inside that scope: once the scope has exited, by whatever path
\* (the body ended after the last chunk or earlier, the body raised, the
\* task was cancelled), the file is closed.
C1_FileClosedWhenScopeExits ==
    \A f \in Fds :
        (fds[f].state = "open" /\ fds[f].bound /\ ~Shared(fds[f].by))
            => task[fds[f].by].depth > 0 /\ task[fds[f].by].pointer = f

\* C1's case: the consumer raised after reading a part of the file, the
\* scope has exited and the file is closed.
C1_Witness ==
    \E t \in Tasks, f \in Fds :
        /\ ~Shared(t) /\ task[t].pc = "done" /\ task[t].exc = "ConsumerError"
        /\ fds[f].by = t /\ fds[f].bound /\ fds[f].state = "closed"
        /\ 0 < fds[f].pos /\ fds[f].pos < Len(Content)

\* C2: once the scope of a remote handle has exited, the response and the
\* session its entry created are closed, on every path through __aexit__.
C2_WebExitClosesResponseAndSession ==
    \A t \in Tasks :
        LET c == handle[hof[t]].client_session IN
        (kind = "web" /\ ~Shared(t) /\ task[t].pc = "done" /\ c # None)
            => conns[c].ctx = "exited" /\ conns[c].session = "closed"

\* C3: when the entry of a remote handle has failed with an error (of the
\* status, or of the request), its session is closed, its response context
\* is not left entered, and the handle holds no reader's transport.
C3_FailedEntryCleansUp ==
    \A c \in Conns :
        conns[c].entry = "failed"
            => /\ conns[c].session = "closed"
               /\ conns[c].ctx # "entered"
               /\ \A h \in Handles : handle[h].client_session # c

\* A step in which task t calls __aenter__ / __aexit__ of its handle.
IsEnterCall(t) == FileAEnter(t) \/ WebAEnter(t) \/ NoOpAEnter(t)
IsExitCall(t) == FileAExit(t) \/ WebAExit(t) \/ NoOpAExit(t)

\* The call of __aenter__ in this step raised, and acquired no transport.
EnterRejected(t) ==
    /\ task'[t].exc = "RuntimeError"
    /\ task'[t].depth = task[t].depth
    /\ task'[t].pc \in {"exit", "done"}
    /\ fds' = fds /\ conns' = conns

C5_EveryReadIsComplete ==
    \A t \in Tasks :
        (~Shared(t) /\ task[t].pc = "body" /\ task[t].iter = "eof"
            /\ \A u \in Tasks : task[u].depth <= 1)
            => Flatten(task[t].out) = Content

\* C5 as amended: the same, unless the data of the in-memory resource is a
\* one-shot iterator or generator.
C5_ReadIsCompleteUnlessOneShot ==
    \A t \in Tasks :
        (kind # "iterator" /\ ~Shared(t) /\ task[t].pc = "body" /\ task[t].iter = "eof")
            => Flatten(task[t].out) = Content

\* C5's case: two reads of a re-iterable producer, both at their end with
\* the whole content, inside scopes that are open at the same time.
C5_Witness ==
    /\ kind = "iterable" /\ Content # <<>>
    /\ \A t \in Tasks :
          /\ ~Shared(t) /\ task[t].pc = "body" /\ task[t].iter = "eof"
          /\ Flatten(task[t].out) = Content

\* C10: when a task was cancelled while iterating inside its scope, then
\* once the scope has exited the file is closed, or the response and the
\* session are.
C10_CancelledIterationReleases ==
    \A t \in Tasks :
        (task[t].cancelled = "iter" /\ task[t].pc = "done" /\ ~Shared(t))
            => /\ \A f \in Fds : (fds[f].by = t /\ fds[f].bound) => fds[f].state = "closed"
               /\ LET c == handle[hof[t]].client_session IN
                  c # None => conns[c].ctx = "exited" /\ conns[c].session = "closed"

\* C16: the entry of a remote handle returns a reader exactly when the
\* status s of the response satisfies 200 <= s < 400, and for every other
\* status the error raised at the check of the status, and the error the
\* entry then fails with, is the kind that belongs to s: 400, 401, 403, 404,
\* any other 4xx, 5xx, anything else.
C16_StatusDecidesEntry ==
    [][\A t \in Tasks :
          /\ (WebResponded(t) /\ conns'[task[t].ctx].status # 0)
                => /\ task'[t].pc = "body" <=> (200 <= conns'[task[t].ctx].status
                                                 /\ conns'[task[t].ctx].status < 400)
                   /\ task'[t].pc # "body"
                         => task'[t].exc = generate_error_response(conns'[task[t].ctx].status)
          /\ (WebEnterFailed(t) /\ conns[task[t].ctx].status # 0)
                => task'[t].exc = generate_error_response(conns[task[t].ctx].status)
      ]_vars

\* C27: when both tasks have left the scopes of one local-file handle they
\* entered, however the two entries and exits interleaved, no file the
\* handle opened stays open.
C27_ConcurrentEntryLeaksNoFile ==
    (/\ kind = "file" /\ Shared(1)
     /\ \A t \in Tasks : task[t].pc = "done" /\ task[t].cancelled = "no")
    => \A f \in Fds : fds[f].state # "open"

\* C28: when a task was cancelled while __aenter__ awaited the open or the
\* request, the session that entry created is closed, and no file the
\* executor opened for it stays open.
C28_CancelledEntryReleases ==
    /\ \A c \in Conns : conns[c].entry = "cancelled" => conns[c].session = "closed"
    /\ \A f \in Fds : (fds[f].by # 0 /\ ~fds[f].bound) => fds[f].state # "open"

(***************************************************************************)
(* SpecReader: one IteratorReader, iterated once, over every source of at  *)
(* most MaxChunks chunks of at most MaxChunkLen bytes or characters.       *)
(***************************************************************************)
\* A chunk of the source: bytes or text of a length, or an object that is
\* neither (an int, None).
ChunkShapes ==
    ({"bytes", "str"} \X (0..MaxChunkLen)) \cup {<<"int", 0>>, <<"NoneType", 0>>}

SourceShapes == UNION {[1..k -> ChunkShapes] : k \in 0..MaxChunks}

\* The i-th character of a text source: below 128 (one byte in UTF-8) for
\* odd i, above (two bytes) for even i.
StrCp(i) == IF i % 2 = 0 THEN 200 + i ELSE 64 + i

\* The chunks of a shape, their bytes and characters numbered from `first`
\* on, so that no two places of the source hold the same value.
RECURSIVE Build(_, _)
Build(shape, first) ==
    IF shape = <<>> THEN <<>>
    ELSE LET h == Head(shape)
             c == [ty |-> h[1],
                   v  |-> [i \in 1..h[2] |->
                              IF h[1] = "str" THEN StrCp(first + i - 1)
                              ELSE first + i - 1]]
         IN <<c>> \o Build(Tail(shape), first + h[2])

ReaderData == {Build(sh, 1) : sh \in SourceShapes}

\* A flat buffer (kind "bytes") holds bytes only.
AllBytes(d) == \A i \in 1..Len(d) : d[i].ty = "bytes"

\* Task 1 is inside the scope of its Bytes.stream() handle, its reader not
\* yet iterated; task 2 takes no part.
InitReader ==
    /\ kind \in InMemory
    /\ data \in ReaderData
    /\ kind = "bytes" => AllBytes(data)
    /\ dataPos = 0
    /\ hof = [t \in Tasks |-> t]
    /\ handle = [h \in Handles |-> IF h = 1 THEN HandleEntered(InitHandle) ELSE InitHandle]
    /\ fds = [f \in Fds |-> [state |-> "unused", pos |-> 0, by |-> 0, bound |-> FALSE]]
    /\ conns = [c \in Conns |-> [session |-> "unused", ctx |-> "unused", pos |-> 0,
                                 by |-> 0, entry |-> "none", status |-> 0,
                                 method |-> "none"]]
    /\ task = [t \in Tasks |-> IF t = 1 THEN Entered(InitTask)
                               ELSE [InitTask EXCEPT !.pc = "done"]]
    /\ fs = NoFiles
    /\ sv = NoSave
    /\ heap = <<>>
    /\ call = NoCall

NextReader == IterPull(1) \/ IterYield(1) \/ IterStop(1)

SpecReader == InitReader /\ [][NextReader]_vars

\* The lengths of the chunks the source of the data produces, up to the
\* first that is neither bytes nor text.
SourceLens ==
    [j \in 1..WrapLen |-> Len(_assert_bytes(WrapItem(j)))]

\* C6 as claimed: a yielded chunk is longer than the block size only if it
\* is one source chunk that was itself longer; and when every source chunk
\* is shorter than the block size, every yielded chunk but the final
\* remainder has exactly the block size.
C6_ChunksNeverExceedBlock ==
    \A t \in Tasks : \A i \in 1..Len(task[t].out) :
        /\ Len(task[t].out[i]) > _MAGIC
              => Cardinality({j \in 1..Len(task[t].outParts[i]) :
                                 task[t].outParts[i][j] > 0}) = 1
        /\ ((\A j \in 1..WrapLen : SourceLens[j] < _MAGIC)
              /\ (i < Len(task[t].out) \/ task[t].iter # "eof"))
              => Len(task[t].out[i]) = _MAGIC

\* C6 as amended: a yielded chunk without the last source chunk that was
\* added to it is shorter than the block size; so it exceeds the block size
\* by less than the length of that source chunk, and when every source
\* chunk is shorter than the block size, by less than the block size minus 1.
C6_ChunkOvershootsByLessThanLastPart ==
    \A t \in Tasks : \A i \in 1..Len(task[t].out) :
        LET parts == task[t].outParts[i] IN
        /\ parts # <<>>
        /\ Len(task[t].out[i]) - parts[Len(parts)] < _MAGIC
        /\ (\A j \in 1..WrapLen : SourceLens[j] < _MAGIC)
              => Len(task[t].out[i]) < 2 * _MAGIC - 1

\* C6's case: a yielded chunk longer than the block size that was put
\* together from two source chunks, each shorter than the block size.
C6_Witness ==
    \E i \in 1..Len(task[1].out) :
        /\ Len(task[1].out[i]) > _MAGIC
        /\ Len(task[1].outParts[i]) = 2
        /\ \A j \in 1..2 : task[1].outParts[i][j] > 0 /\ task[1].outParts[i][j] < _MAGIC

\* C7: every chunk the in-memory reader has yielded is at least one block
\* long, except the one it yields last, after its source has ended.
C7_NonFinalChunksReachBlockSize ==
    \A t \in Tasks : \A i \in 1..Len(task[t].out) :
        (i < Len(task[t].out) \/ task[t].iter # "eof")
            => Len(task[t].out[i]) >= _MAGIC

\* C7's case: a source of three chunks shorter than a block, text among
\* them, was read to its end in a full chunk and a short remainder.
C7_Witness ==
    /\ task[1].iter = "eof"
    /\ Len(data) = 3
    /\ \A j \in 1..3 : Len(_assert_bytes(data[j])) \in 1.._MAGIC - 1
    /\ \E j \in 1..3 : data[j].ty = "str"
    /\ Len(task[1].out) = 2
    /\ Len(task[1].out[2]) < _MAGIC

\* AsyncReader.read of task t's reader: every chunk the iteration yields is
\* appended to one buffer, which is returned when the iteration ends.
read(t) == Flatten(task[t].out)

\* C19: read() returns the chunks its reader yields, joined in order; for
\* an in-memory resource that is the chunks of the source joined in order,
\* text encoded as UTF-8, and while the read goes on what was yielded and
\* what is buffered are the chunks taken so far: no byte is lost, doubled
\* or moved.
C19_ReadJoinsSourceChunks ==
    LET Encoded(c) == IF c.ty = "str" THEN Utf8(c.v) ELSE c.v
        Joined(n)  == Flatten([i \in 1..n |-> Encoded(data[i])])
        Taken      == IF kind = "bytes"
                      THEN SubSeq(Joined(Len(data)), 1,
                                  Min({WrapPos(1) * _MAGIC, Len(Joined(Len(data)))}))
                      ELSE Joined(WrapPos(1))
    IN /\ task[1].iter \in {"new", "active"} => read(1) \o task[1].buff = Taken
       /\ task[1].iter = "eof" => read(1) = Joined(Len(data))

\* A read ended that joined text of two-byte characters and bytes, in more
\* than one yielded chunk.
C19_Witness ==
    /\ task[1].iter = "eof"
    /\ \E i, j \in 1..Len(data) :
          /\ data[i].ty = "str" /\ Len(Utf8(data[i].v)) > Len(data[i].v)
          /\ data[j].ty = "bytes" /\ data[j].v # <<>>
    /\ Len(task[1].out) > 1
    /\ read(1) = Content

\* C22: when the source of an in-memory resource produces a chunk that is
\* neither bytes nor text, the iteration fails at the first such chunk with
\* a TypeError whose message names the type of that chunk; the error is in
\* flight in the consumer, the chunks yielded before it are made of the
\* source chunks before that one, none is yielded after it, and the
\* iteration never ends as if the source had ended.
C22_BadChunkRaisesTypeError ==
    /\ [](LET bad == {i \in 1..Len(data) : AssertBytesRaises(data[i])}
              Joined(n) == Flatten([i \in 1..n |-> _assert_bytes(data[i])])
              Failed ==
                  /\ bad # {}
                  /\ WrapPos(1) = Min(bad)
                  /\ task[1].pc = "exit"
                  /\ task[1].exc = "TypeError"
                  /\ task[1].msg = <<"Expected bytes but received ", data[Min(bad)].ty>>
                  /\ read(1) = SubSeq(Joined(Min(bad) - 1), 1, Len(read(1)))
          IN /\ task[1].iter = "failed" => Failed
             /\ task[1].iter = "eof" => bad = {}
             /\ task[1].iter # "failed" => task[1].exc = "none")
    /\ [][task[1].iter = "failed" => task'[1] = task[1]]_vars

\* An iteration failed at a chunk that is an int, after it had yielded a
\* chunk and with bytes of the source waiting in its buffer.
C22_Witness ==
    /\ task[1].iter = "failed"
    /\ task[1].out # <<>>
    /\ task[1].buff # <<>>
    /\ task[1].msg = <<"Expected bytes but received ", "int">>

(***************************************************************************)
(* SpecFile: task 1 streams a local file of up to MaxFileLen bytes through *)
(* a handle of its own, from `async with` to the end of the scope; task 2  *)
(* takes no part.                                                          *)
(***************************************************************************)
MaxFileLen == 7

InitFile ==
    /\ kind = "file"
    /\ data \in {<<BytesChunk([i \in 1..n |-> i])>> : n \in 0..MaxFileLen}
    /\ dataPos = 0
    /\ hof = [t \in Tasks |-> t]
    /\ handle = [h \in Handles |-> InitHandle]
    /\ fds = [f \in Fds |-> [state |-> "unused", pos |-> 0, by |-> 0, bound |-> FALSE]]
    /\ conns = [c \in Conns |-> [session |-> "unused", ctx |-> "unused", pos |-> 0,
                                 by |-> 0, entry |-> "none", status |-> 0,
                                 method |-> "none"]]
    /\ task = [t \in Tasks |-> IF t = 1 THEN InitTask ELSE [InitTask EXCEPT !.pc = "done"]]
    /\ fs = NoFiles
    /\ sv = NoSave
    /\ heap = <<>>
    /\ call = NoCall

NextFile ==
    \/ FileAEnter(1) \/ FileOpened(1)
    \/ FileReadCall(1) \/ FileReadDone(1)
    \/ BodyEnd(1)
    \/ FileAExit(1) \/ FileClosed(1)

SpecFile == InitFile /\ [][NextFile]_vars

\* C20: the file reader asks for one block per step and stops after the
\* first chunk shorter than a block: every chunk yielded before the last is
\* exactly one block, the chunks are the file's content in order, and when
\* the iteration has ended the last chunk is the only one shorter than a
\* block (empty when the length of the file is a multiple of the block
\* size, as for an empty file) and the chunks make up the whole content.
C20_FileChunksAreBlocks ==
    LET o == task[1].out
        n == Len(o)
    IN /\ \A i \in 1..n : Len(o[i]) <= _MAGIC
       /\ \A i \in 1..(n - 1) : Len(o[i]) = _MAGIC
       /\ Flatten(o) = SubSeq(Content, 1, Len(Flatten(o)))
       /\ (n > 0 /\ Len(o[n]) < _MAGIC) => task[1].iter = "eof"
       /\ task[1].iter = "eof" =>
             /\ n > 0
             /\ Len(o[n]) < _MAGIC
             /\ Flatten(o) = Content
             /\ Len(Content) % _MAGIC = 0 => o[n] = <<>>

\* A file of two blocks was read to its end: two blocks, then an empty
\* chunk.
C20_Witness ==
    /\ task[1].iter = "eof"
    /\ Len(Content) = 2 * _MAGIC
    /\ Len(task[1].out) = 3
    /\ task[1].out[3] = <<>>

(***************************************************************************)
(* SpecSeq: the two tasks use one handle instance one after the other.     *)
(* Each enters it, iterates its reader (or calls read() on it) until the   *)
(* reader ends, and leaves; the body may raise at any point.  The event    *)
(* loop and the executor keep running what is ready, so the steps of the   *)
(* handle and of the reader are taken under weak fairness; when the body   *)
(* raises is up to the consumer.                                           *)
(***************************************************************************)
InitSeq ==
    /\ kind \in Kinds
    /\ data \in StreamData \cup
                { << BytesChunk(<<1, 2, 3>>), BytesChunk(<<4, 5, 6>>) >>,
                  << StrChunk(<<65>>), OtherChunk(<<>>) >> }
    /\ kind \in {"file", "web", "bytes"} => \A i \in 1..Len(data) : data[i].ty = "bytes"
    /\ dataPos = 0
    /\ hof = [t \in Tasks |-> 1]
    /\ \E ho \in BOOLEAN :
          /\ ho => kind = "web"
          /\ handle = [h \in Handles |-> [InitHandle EXCEPT !.head_only = ho]]
    /\ fds = [f \in Fds |-> [state |-> "unused", pos |-> 0, by |-> 0, bound |-> FALSE]]
    /\ conns = [c \in Conns |-> [session |-> "unused", ctx |-> "unused", pos |-> 0,
                                 by |-> 0, entry |-> "none", status |-> 0,
                                 method |-> "none"]]
    /\ task = [t \in Tasks |-> InitTask]
    /\ fs = NoFiles
    /\ sv = NoSave
    /\ heap = <<>>
    /\ call = NoCall

\* A step of task t's handle or reader: `async with handle as reader:`,
\* begun while the other task is outside the handle, around one iteration
\* of the reader, or one read(), that runs to the reader's end.
SeqStep(t) ==
    \/ /\ task[t].pc = "start"
       /\ \A u \in Tasks \ {t} : task[u].pc \in {"start", "done"}
       /\ (FileAEnter(t) \/ WebAEnter(t) \/ NoOpAEnter(t))
    \/ FileOpened(t) \/ WebResponded(t) \/ WebEnterFailed(t)
    \/ FileReadCall(t) \/ FileReadDone(t)
    \/ WebReadCall(t) \/ WebReadDone(t) \/ WebRead(t)
    \/ IterPull(t) \/ IterYield(t) \/ IterStop(t)
    \/ task[t].iter \in {"eof", "read"} /\ BodyEnd(t)
    \/ FileAExit(t) \/ FileClosed(t)
    \/ WebAExit(t) \/ WebSessionClosed(t)
    \/ NoOpAExit(t)

NextSeq == \E t \in Tasks : SeqStep(t) \/ ConsumerRaise(t)

SpecSeq == InitSeq /\ [][NextSeq]_vars /\ WF_vars(\E t \in Tasks : SeqStep(t))

\* C21: a remote handle made with head_only=True requests with HEAD; its
\* reader yields one chunk, the empty one, and ends, its read() returns the
\* empty buffer, and neither takes anything from the body of the response.
\* Made with head_only=False it requests with GET; its reader yields the
\* chunks of the transport one by one, in order, and ends exactly when the
\* transport is at its end, with all of them yielded.
C21_HeadOnlyYieldsOneEmptyChunk ==
    /\ \A c \in Conns :
          conns[c].session # "unused"
             => conns[c].method = IF handle[1].head_only THEN "HEAD" ELSE "GET"
    /\ \A t \in Tasks :
          (kind = "web" /\ task[t].stream # None) =>
             LET c == task[t].stream
                 o == task[t].out
             IN IF handle[hof[t]].head_only
                THEN /\ conns[c].pos = 0
                     /\ o \in {<<>>, << <<>> >>}
                     /\ task[t].iter = "eof" <=> o = << <<>> >>
                     /\ task[t].iter = "read" => task[t].ret = <<>>
                ELSE /\ o = [i \in 1..Len(o) |-> data[i].v]
                     /\ task[t].iter # "read" => Len(o) = conns[c].pos
                     /\ task[t].iter = "eof" => Len(o) = Len(data)
                     /\ (task[t].iter = "active" /\ task[t].pc = "body" /\ Len(o) = Len(data))
                           => ENABLED WebReadCall(t)
                     /\ task[t].iter = "read" => task[t].ret = Content /\ o = <<>>

\* A reader made with head_only=True has ended after its one empty chunk,
\* on a resource whose body is not empty.
C21_Witness ==
    \E t \in Tasks :
        /\ kind = "web" /\ handle[hof[t]].head_only /\ Content # <<>>
        /\ task[t].pc = "body" /\ task[t].iter = "eof"
        /\ task[t].out = << <<>> >>
        /\ conns[task[t].stream].method = "HEAD"

\* C25: an iteration that has begun comes to its end: the reader ends
\* (after a short chunk of the file, at the end of the buffer or of the
\* producer, when the transport is at its end), or it fails, or the
\* consumer leaves the scope before; and a reader never yields more chunks
\* than its source has bytes and chunks.
C25_IterationTerminates ==
    /\ [](\A t \in Tasks : Len(task[t].out) <= Len(Content) + Len(data) + 1)
    /\ \A t \in Tasks :
          (task[t].pc \in {"body", "reading"})
             ~> (task[t].iter \in {"eof", "failed", "read"}
                   \/ task[t].pc \notin {"body", "reading"})

\* The readers of both tasks, one after the other, have ended on a source
\* of more than one block.
C25_Witness ==
    /\ Len(Content) > _MAGIC
    /\ task[1].pc = "done" /\ task[1].exc = "none"
    /\ task[2].pc = "body" /\ task[2].iter = "eof" /\ Len(task[2].out) >= 2

\* C26: the file field of a local-file handle that tasks use one at a time
\* is set exactly while a task is inside the scope, from the return of a
\* successful __aenter__ to the return of __aexit__; it then names the open
\* file the reader of that task reads.  A failed open enters no scope and
\* so leaves it unset, no file stays open once it is unset again, and a
\* later entry of the same handle is not rejected and opens the file anew:
\* the handle has opened as many files as it was entered.
C26_FileFieldSetWhileEntered ==
    kind = "file" =>
        /\ handle[1].file # None <=> \E t \in Tasks : task[t].depth > 0
        /\ handle[1].file # None =>
              /\ fds[handle[1].file].state = "open" \/ handle[1].live = 0
              /\ \E t \in Tasks : task[t].depth = 1 /\ task[t].pointer = handle[1].file
        /\ \A f \in Fds : fds[f].state = "open" => handle[1].file = f
        /\ Cardinality({f \in Fds : fds[f].state # "unused"}) = handle[1].entries
        /\ \A t \in Tasks :
              (task[t].pc = "start" /\ \A u \in Tasks : task[u].pc \in {"start", "done"})
                 => ENABLED (FileAEnter(t) /\ task'[t].pc = "opening")

\* The handle is inside its second scope, on a second file; the file of its
\* first scope is closed.
C26_Witness ==
    /\ kind = "file"
    /\ handle[1].entries = 2 /\ handle[1].file = 2
    /\ fds[1].state = "closed" /\ fds[2].state = "open"

(***************************************************************************)
(* SpecSave: one call r.save(path, force=force) by task 1, on a file       *)
(* system that holds directories and files from earlier.  File.save copies *)
(* the file, Bytes.save writes a flat buffer at once, and every other      *)
(* resource (a lazy producer of chunks, a remote resource) is saved by     *)
(* Resource.save, which streams it into the file.                          *)
(***************************************************************************)
\* The content of the files that exist before the call.
Old == <<7>>

SaveKinds == {"file", "bytes", "iterable", "web"}

SaveData ==
    StreamData \cup
    { << BytesChunk(<<1, 2, 3>>), BytesChunk(<<4>>) >>,
      << BytesChunk(<<1, 2, 3>>), OtherChunk(<<>>) >> }

\* The directories and the files that may exist before the call, besides
\* the home directory.
DirPlaces == { <<"d">>, <<"~">>, <<"home", "d">>, <<"~", "d">> }
FilePlaces ==
    { <<"a">>, <<"home", "a">>, <<"~", "a">>, <<"~", "f">>,
      <<"d", "f">>, <<"home", "d", "f">>, <<"home", "f">> }

\* The file system with the directories ds and the files fl.
FsOf(ds, fl) ==
    [p \in Nodes |-> IF p = Home \/ p \in ds THEN Dir
                     ELSE IF p \in fl THEN FileOf(Old)
                     ELSE Absent]

\* Every file and directory lies in a directory.
WellFormed(f) == \A p \in Nodes : exists(f, p) => is_dir(f, Parent(p))

InitSave ==
    /\ kind \in SaveKinds
    /\ data \in SaveData
    /\ kind \in {"file", "bytes", "web"} => AllBytes(data)
    /\ dataPos = 0
    /\ hof = [t \in Tasks |-> t]
    /\ handle = [h \in Handles |-> InitHandle]
    /\ fds = [f \in Fds |-> [state |-> "unused", pos |-> 0, by |-> 0, bound |-> FALSE]]
    /\ conns = [c \in Conns |-> [session |-> "unused", ctx |-> "unused", pos |-> 0,
                                 by |-> 0, entry |-> "none", status |-> 0,
                                 method |-> "none"]]
    /\ task = [t \in Tasks |-> IF t = 1 THEN InitTask ELSE [InitTask EXCEPT !.pc = "done"]]
    /\ heap = <<>>
    /\ call = NoCall
    /\ \E ds \in SUBSET DirPlaces, fl \in SUBSET FilePlaces,
          src \in IF kind = "file" THEN {FilePath, <<"~", Filename>>} ELSE {<<>>} :
          LET f0 == FsOf(ds, fl)
              \* the file of a File resource is the one its stream() opens
              f  == IF kind = "file" THEN [f0 EXCEPT ![expanduser(src)] = FileOf(Content)]
                    ELSE f0
          IN /\ WellFormed(f)
             /\ fs = f
             /\ \E p \in SaveArgs, force \in BOOLEAN :
                   sv = [NoSave EXCEPT !.pc = "start", !.path = p, !.force = force,
                                       !.before = f, !.src = src]

\* _to_write_path: the path it returns, and whether it raises
\* FileExistsError instead.
_to_write_path(f, path, default_filename, force) ==
    LET joined == IF is_dir(f, path) THEN joinpath(path, default_filename) ELSE path
    IN [ raises |-> ~force /\ exists(f, joined),
         path   |-> expanduser(joined) ]

\* shutil.copy2(src, dst): the file it writes (into dst when dst is a
\* directory), and the error it raises instead, or "none".
Copy2Target(f, src, dst) == IF is_dir(f, dst) THEN joinpath(dst, src[Len(src)]) ELSE dst

Copy2Error(f, src, dst) ==
    IF ~is_file(f, src) THEN "FileNotFoundError"
    ELSE IF Copy2Target(f, src, dst) = src THEN "SameFileError"
    ELSE OpenWriteError(f, Copy2Target(f, src, dst))

SaveEnded(e) == [sv EXCEPT !.pc = "done", !.exc = e]

\* File.save: _copy_to_path runs in the executor, on self.path as it is.
_copy_to_path ==
    /\ sv.pc = "start"
    /\ kind = "file"
    /\ LET w == _to_write_path(fs, sv.path, Filename, sv.force)
           e == Copy2Error(fs, sv.src, w.path)
       IN IF w.raises THEN sv' = SaveEnded("FileExistsError") /\ fs' = fs
          ELSE IF e # "none" THEN sv' = SaveEnded(e) /\ fs' = fs
          ELSE /\ fs' = [fs EXCEPT ![Copy2Target(fs, sv.src, w.path)] = fs[sv.src]]
               /\ sv' = [SaveEnded("none") EXCEPT !.file = Copy2Target(fs, sv.src, w.path)]
    /\ UNCHANGED <<streamVars, heap, call>>

\* Bytes.save of a flat buffer: _write_bytes runs in the executor.
_write_bytes ==
    /\ sv.pc = "start"
    /\ kind = "bytes"
    /\ LET w == _to_write_path(fs, sv.path, Filename, sv.force)
           e == OpenWriteError(fs, w.path)
       IN IF w.raises THEN sv' = SaveEnded("FileExistsError") /\ fs' = fs
          ELSE IF e # "none" THEN sv' = SaveEnded(e) /\ fs' = fs
          ELSE /\ fs' = [fs EXCEPT ![w.path] = FileOf(Content)]
               /\ sv' = [SaveEnded("none") EXCEPT !.file = w.path]
    /\ UNCHANGED <<streamVars, heap, call>>

\* Resource.save: _open_write_path runs in the executor; an error of it
\* ends the call, otherwise the file is created or truncated.
_open_write_path ==
    /\ sv.pc = "start"
    /\ kind \notin {"file", "bytes"}
    /\ LET w == _to_write_path(fs, sv.path, Filename, sv.force)
           e == OpenWriteError(fs, w.path)
       IN IF w.raises THEN sv' = SaveEnded("FileExistsError") /\ fs' = fs
          ELSE IF e # "none" THEN sv' = SaveEnded(e) /\ fs' = fs
          ELSE /\ fs' = [fs EXCEPT ![w.path] = FileOf(<<>>)]
               /\ sv' = [sv EXCEPT !.pc = "streaming", !.file = w.path]
    /\ UNCHANGED <<streamVars, heap, call>>

\* Resource.save: `async with self.stream(executor=executor) as reader`,
\* the __aenter__ of the handle up to its return or its error.
SaveStreamEnter ==
    /\ sv.pc = "streaming"
    /\ \/ task[1].pc = "start" /\ (NoOpAEnter(1) \/ WebAEnter(1))
       \/ WebResponded(1)
       \/ WebEnterFailed(1)

\* Resource.save: `async for chunk in reader` asks the reader for its next
\* chunk, once the chunk before is written.
SaveNextChunk ==
    /\ sv.pc = "streaming"
    /\ sv.written = Len(task[1].out)
    /\ \/ IterPull(1) \/ IterYield(1) \/ IterStop(1)
       \/ WebReadCall(1) \/ WebReadDone(1)

\* SaveWriteChunk with a plausible slip: the chunk replaces what the file
\* holds.
SaveWriteChunkAtStart ==
    /\ sv.pc = "streaming"
    /\ task[1].pc = "body"
    /\ sv.written < Len(task[1].out)
    /\ \/ /\ fs' = [fs EXCEPT ![sv.file] = FileOf(task[1].out[sv.written + 1])]
          /\ sv' = [sv EXCEPT !.written = @ + 1]
          /\ UNCHANGED <<streamVars, heap, call>>
       \/ /\ task' = [task EXCEPT ![1] = [@ EXCEPT !.pc = "exit", !.exc = "OSError"]]
          /\ UNCHANGED <<kind, data, dataPos, hof, handle, fds, conns, fs, sv, heap, call>>

\* Resource.save: `await loop.run_in_executor(executor, file.write, chunk)`:
\* the chunk is appended to the file, or the write raises (a full disk) in
\* the body of the `async with`.
SaveWriteChunk ==
    /\ sv.pc = "streaming"
    /\ task[1].pc = "body"
    /\ sv.written < Len(task[1].out)
    /\ \/ /\ fs' = [fs EXCEPT ![sv.file] = FileOf(@.c \o task[1].out[sv.written + 1])]
          /\ sv' = [sv EXCEPT !.written = @ + 1]
          /\ UNCHANGED <<streamVars, heap, call>>
       \/ /\ task' = [task EXCEPT ![1] = [@ EXCEPT !.pc = "exit", !.exc = "OSError"]]
          /\ UNCHANGED <<kind, data, dataPos, hof, handle, fds, conns, fs, sv, heap, call>>

\* Resource.save: the reader is exhausted and the loop ends.
SaveLoopEnd ==
    /\ sv.pc = "streaming"
    /\ task[1].iter = "eof"
    /\ sv.written = Len(task[1].out)
    /\ BodyEnd(1)

\* Resource.save: the scope of the stream is left, by the __aexit__ of the
\* handle.
SaveStreamExit ==
    /\ sv.pc = "streaming"
    /\ NoOpAExit(1) \/ WebAExit(1) \/ WebSessionClosed(1)

\* SaveFileClose with a plausible slip: no `finally`, the file is closed
\* when the `async with` ended without an exception.
SaveFileCloseOnlyClean ==
    /\ sv.pc = "streaming"
    /\ task[1].pc = "done"
    /\ sv' = [SaveEnded(task[1].exc) EXCEPT
                 !.closes = IF task[1].exc = "none" THEN @ + 1 ELSE @]
    /\ UNCHANGED <<streamVars, fs, heap, call>>

\* Resource.save: `finally: await loop.run_in_executor(executor, file.close)`.
SaveFileClose ==
    /\ sv.pc = "streaming"
    /\ task[1].pc = "done"
    /\ sv' = [SaveEnded(task[1].exc) EXCEPT !.closes = @ + 1]
    /\ UNCHANGED <<streamVars, fs, heap, call>>

NextSave ==
    \/ _copy_to_path \/ _write_bytes \/ _open_write_path
    \/ SaveStreamEnter \/ SaveNextChunk \/ SaveWriteChunk
    \/ SaveLoopEnd \/ SaveStreamExit \/ SaveFileClose

SpecSave == InitSave /\ [][NextSave]_vars

\* The file save(path) is to write according to the specification: the
\* given path with ~ expanded, and the resource's filename appended when
\* that is a directory.
TargetFile(f, path) ==
    IF is_dir(f, expanduser(path)) THEN joinpath(expanduser(path), Filename)
    ELSE expanduser(path)

\* C8: when save() is called with force=False and a file exists at its
\* target, the file keeps its contents throughout, and the call ends with
\* FileExistsError.
C8_ExistingFileIsKept ==
    (sv.pc \in {"streaming", "done"} /\ ~sv.force
        /\ is_file(sv.before, TargetFile(sv.before, sv.path)))
    => /\ fs[TargetFile(sv.before, sv.path)] = sv.before[TargetFile(sv.before, sv.path)]
       /\ sv.pc = "done" => sv.exc = "FileExistsError"

\* C9: save() changes no file but the one at the given path, with ~
\* expanded and the filename appended when it is a directory; and with
\* force=False it changes no path at which a file existed before the call.
C9_SaveWritesOnlyResolvedNewFile ==
    sv.pc \in {"streaming", "done"} =>
        \A p \in Nodes :
            fs[p] # sv.before[p] =>
                /\ p = TargetFile(sv.before, sv.path)
                /\ ~sv.force => ~is_file(sv.before, p)

\* C23: while Resource.save streams, the file it opened holds the chunks
\* the reader has yielded, each written once and in the order of their
\* yield, but for the last one when it is not yet written: no chunk is
\* asked of the reader while one is unwritten.  When the call completes the
\* file holds the content of the resource.
C23_SaveWritesChunksInOrder ==
    kind \notin {"file", "bytes"} =>
        /\ (sv.pc = "streaming" /\ task[1].pc \in {"body", "reading", "exit"}) =>
              /\ sv.written <= Len(task[1].out)
              /\ Len(task[1].out) <= sv.written + 1
              /\ fs[sv.file] = FileOf(Flatten(SubSeq(task[1].out, 1, sv.written)))
              /\ Flatten(task[1].out) = SubSeq(Content, 1, Len(Flatten(task[1].out)))
        /\ (sv.pc = "done" /\ sv.exc = "none") => fs[sv.file] = FileOf(Content)

\* A save of a lazy producer completed after two writes, over a file that
\* existed before.
C23_Witness ==
    /\ kind = "iterable" /\ sv.pc = "done" /\ sv.exc = "none"
    /\ sv.written = 2
    /\ is_file(sv.before, sv.file)
    /\ fs[sv.file] = FileOf(Content) /\ Content # <<>>

\* C24: File.save and Bytes.save of a flat buffer open no stream, Bytes.save
\* of a lazy producer is the generic streamed save, and whichever way a
\* save succeeds, the file it wrote holds the bytes read() of the resource
\* returns.
C24_SpecializedSaveEqualsStreamed ==
    /\ kind \in {"file", "bytes"} => task[1] = InitTask
    /\ (kind = "iterable" /\ sv.pc = "done" /\ sv.exc = "none") => sv.closes = 1
    /\ (sv.pc = "done" /\ sv.exc = "none") => fs[sv.file] = FileOf(Content)

\* C29: Resource.save enters the stream of the source only when the
\* destination file is open; the file is closed at most once, and after the
\* scope of the stream has exited; and when the call is over, the file, if
\* it was opened, is closed, whether the call succeeded, the source could
\* not be entered, the iteration failed or a write failed.  The call does
\* not end in between.
C29_DestinationClosedOnce ==
    kind \notin {"file", "bytes"} =>
        /\ task[1].pc # "start" => sv.pc \in {"streaming", "done"} /\ sv.file # <<>>
        /\ sv.closes <= 1
        /\ sv.closes = 1 <=> (sv.pc = "done" /\ sv.file # <<>>)
        /\ sv.closes = 1 => task[1].pc = "done" /\ task[1].depth = 0
        /\ sv.pc = "streaming" => ENABLED NextSave

\* A save is over whose write failed: the scope of the stream has exited
\* and the file is closed.
C29_Witness ==
    /\ kind \notin {"file", "bytes"} /\ sv.pc = "done" /\ sv.exc = "OSError"
    /\ sv.written = 1 /\ sv.closes = 1
    /\ task[1].pc = "done"

\* C30: when Resource.save has failed because the source could not be
\* entered or because the iteration failed, the file system is as it was
\* before the call.
C30_FailedSaveLeavesDestination ==
    (/\ kind \notin {"file", "bytes"} /\ sv.pc = "done"
     /\ \/ sv.exc = "TypeError"
        \/ \E c \in Conns : conns[c].entry = "failed")
    => fs = sv.before

(***************************************************************************)
(* SpecResource: Resource objects are made by the constructors and by      *)
(* ensure_resource, and used.  No stream is open and no save in progress.  *)
(***************************************************************************)
MaxObjs == 2

\* The streams and the file system at rest.
Idle ==
    /\ kind = "bytes"
    /\ data = <<>>
    /\ dataPos = 0
    /\ hof = [t \in Tasks |-> t]
    /\ handle = [h \in Handles |-> InitHandle]
    /\ fds = [f \in Fds |-> [state |-> "unused", pos |-> 0, by |-> 0, bound |-> FALSE]]
    /\ conns = [c \in Conns |-> [session |-> "unused", ctx |-> "unused", pos |-> 0,
                                 by |-> 0, entry |-> "none", status |-> 0,
                                 method |-> "none"]]
    /\ task = [t \in Tasks |-> [InitTask EXCEPT !.pc = "done"]]
    /\ fs = NoFiles
    /\ sv = NoSave

\* The arguments the calls are made with: URLs, data URIs that decode and
\* that do not, paths, and bytes-like values.
HttpsUrl == <<"https", ":", "/", "/", "h", "/", "a", "/", "b", ".", "png", "?", "q">>
HttpUrl == <<"http", ":", "/", "/", "h">>
BadPaddingUri == <<"data", ":", ";", "base64", ",", "Q">>
PngPath == <<"a", "/", "b", ".", "png">>
StrInputs ==
    {HttpsUrl, HttpUrl, <<"HTTP", ":", "/", "/", "h">>,
     <<"data", ":", "image", "/", "png", ";", "base64", ",", "Q", "U", "I", "=">>,
     <<"data", ":", ",", "Q", "Q">>,
     <<"data", ":", "a", "/", "b">>, BadPaddingUri,
     <<"b", ".", "txt", "/">>, <<>>}
Args ==
    {Arg("str", 0, <<>>, s) : s \in StrInputs}
        \cup {Arg("Path", 0, <<>>, HttpUrl)}
        \cup {Arg("bytes", 0, <<65>>, <<>>), Arg("bytearray", 0, Magic.png, <<>>),
              Arg("StringIO", 0, <<233>>, <<>>)}
        \cup {Arg("Resource", r, <<>>, <<>>) : r \in 1..Len(heap)}

InitResource ==
    /\ Idle
    /\ heap = <<>>
    /\ call = NoCall

\* File(path, filename, spoiler=...)
NewFile(path, fname, spoiler) ==
    /\ Len(heap) < MaxObjs
    /\ heap' = Append(heap, File(PurePath(path), fname, spoiler))
    /\ call' = [NoCall EXCEPT !.op = "File", !.ret = Len(heap) + 1]
    /\ UNCHANGED <<streamVars, fs, sv>>

\* Bytes(data, filename, spoiler=...)
NewBytes(bytes, fname, spoiler) ==
    /\ Len(heap) < MaxObjs
    /\ heap' = Append(heap, Bytes(bytes, fname, NoneStr, spoiler))
    /\ call' = [NoCall EXCEPT !.op = "Bytes", !.ret = Len(heap) + 1]
    /\ UNCHANGED <<streamVars, fs, sv>>

\* URL(url, filename)
NewURL(u, fname) ==
    /\ Len(heap) < MaxObjs
    /\ heap' = Append(heap, URL(u, fname))
    /\ call' = [NoCall EXCEPT !.op = "URL", !.ret = Len(heap) + 1]
    /\ UNCHANGED <<streamVars, fs, sv>>

\* ensure_resource(x)
EnsureResource(x) ==
    \E r \in {ensure_resource(x, Uuid(Len(heap) + 1))} :
       LET c == [NoCall EXCEPT !.op = "ensure_resource", !.x = x, !.exc = r.exc]
       IN /\ IF r.exc # "none" THEN heap' = heap /\ call' = c
             ELSE IF r.ref # 0 THEN heap' = heap /\ call' = [c EXCEPT !.ret = r.ref]
             ELSE /\ Len(heap) < MaxObjs
                  /\ heap' = Append(heap, r.obj)
                  /\ call' = [c EXCEPT !.ret = Len(heap) + 1]
          /\ UNCHANGED <<streamVars, fs, sv>>

\* r.stream(...), r.read(...) and r.save(...): none assigns to a field of r.
Use(r, op) ==
    /\ call' = [NoCall EXCEPT !.op = op, !.x = Arg("Resource", r, <<>>, <<>>)]
    /\ UNCHANGED <<streamVars, fs, sv, heap>>

NextResource ==
    \/ \E fname \in {NoneStr, <<"x">>}, spoiler \in BOOLEAN : NewFile(PngPath, fname, spoiler)
    \/ \E spoiler \in BOOLEAN : NewBytes(<<65>>, <<"x">>, spoiler)
    \/ \E u \in {HttpsUrl, <<"attachment", ":", "/", "/", "x">>}, fname \in {NoneStr, <<"x">>} :
          NewURL(u, fname)
    \/ \E x \in Args : EnsureResource(x)
    \/ \E r \in 1..Len(heap), op \in {"stream", "read", "save"} : Use(r, op)

SpecResource == InitResource /\ [][NextResource]_vars

(***************************************************************************)
(* Properties of SpecResource                                              *)
(***************************************************************************)
\* C11: ensure_resource applied to a Resource returns that very object and
\* makes no new one; so applying it to its own result returns that result.
C11_ResourceReturnedAsIs ==
    [][(call'.op = "ensure_resource" /\ call'.x.ty = "Resource")
          => /\ call'.exc = "none"
             /\ call'.ret = call'.x.ref
             /\ heap' = heap]_vars

\* ensure_resource was applied to an object that ensure_resource had made
\* from raw bytes or a data URI.
C11_Witness ==
    /\ call.op = "ensure_resource"
    /\ call.x.ty = "Resource"
    /\ call.ret = call.x.ref
    /\ heap[call.ret]._filename # NoneStr
    /\ StartsWith(heap[call.ret]._filename, Uuid(call.ret))

\* C12: ensure_resource classifies an argument that is no Resource in a
\* fixed order: raw bytes-like gives a Bytes with a generated filename (no
\* path separator in it); otherwise text starting with http:// or https://
\* gives a URL; otherwise text starting with data: that decodes gives a
\* Bytes holding the decoded content; otherwise the text gives a File whose
\* filename is the last component of its path.
C12_ClassifiedByPrecedence ==
    (call.op = "ensure_resource" /\ call.x.ty # "Resource") =>
        /\ call.exc = "none"
        /\ LET x == call.x
               s == Str(x)
               o == heap[call.ret]
           IN CASE x.ty \in RAWISH_TYPES ->
                     /\ o.cls = "Bytes"
                     /\ o.data = unwrap_bytes(x)
                     /\ StartsWith(filename(o), Uuid(call.ret))
                     /\ \A i \in 1..Len(filename(o)) : filename(o)[i] # "/"
                [] x.ty \notin RAWISH_TYPES
                   /\ (StartsWith(s, <<"http", ":", "/", "/">>)
                          \/ StartsWith(s, <<"https", ":", "/", "/">>)) ->
                     o.cls = "URL" /\ url(o) = s
                [] x.ty \notin RAWISH_TYPES
                   /\ StartsWith(s, <<"data", ":">>) /\ DataOpen(s).exc = "none" ->
                     o.cls = "Bytes" /\ o.data = DataOpen(s).data
                [] OTHER ->
                     /\ o.cls = "File"
                     /\ o.path = PurePath(s)
                     /\ filename(o) = PathName(o.path)

\* A StringIO became a Bytes and then an http:// string a URL.
C12_Witness ==
    /\ Len(heap) = 2
    /\ heap[1].cls = "Bytes"
    /\ heap[1].data = <<195, 169>>
    /\ call.op = "ensure_resource"
    /\ call.x = Arg("str", 0, <<>>, HttpUrl)
    /\ call.ret = 2
    /\ heap[2].cls = "URL"

\* C13: ensure_resource of text that starts with data: and cannot be
\* decoded raises nothing and returns a File whose path is that text.
C13_UndecodableDataUriBecomesFile ==
    (/\ call.op = "ensure_resource"
     /\ call.x.ty \in {"str", "Path"}
     /\ StartsWith(Str(call.x), <<"data", ":">>)
     /\ DataOpen(Str(call.x)).exc # "none")
        => /\ call.exc = "none"
           /\ call.ret = Len(heap)
           /\ heap[call.ret].cls = "File"
           /\ heap[call.ret].path = PurePath(Str(call.x))

\* A data URI whose base64 payload is cut short became a File.
C13_Witness ==
    /\ call.op = "ensure_resource"
    /\ call.x = Arg("str", 0, <<>>, BadPaddingUri)
    /\ DataOpen(BadPaddingUri).exc = "binascii.Error"
    /\ call.ret > 0
    /\ heap[call.ret].cls = "File"

\* C14: equality and hashing of Resources are decided by url alone: two
\* Resources with the same url are equal and hash alike, whatever their
\* classes, and two with different urls are unequal.  (__hash__ is taken
\* as the tuple it hashes: different tuples give different hashes, up to
\* collisions.)
C14_EqualityAndHashByUrl ==
    \A i, j \in 1..Len(heap) :
        /\ url(heap[i]) = url(heap[j])
              => __eq__(heap[i], heap[j]) /\ __hash__(heap[i]) = __hash__(heap[j])
        /\ url(heap[i]) # url(heap[j]) => ~__eq__(heap[i], heap[j])

\* C15: the filename of a Resource is the same string at every read, also
\* after stream(), read() or save() were called on it; and the filename of
\* a File or Bytes marked as a spoiler is SPOILER_ followed by the filename
\* the same Resource has without the mark.
C15_FilenameIsStable ==
    /\ [](\A i, j \in 1..Len(heap) :
            (/\ heap[i].cls \in {"File", "Bytes"}
             /\ heap[i].is_spoiler
             /\ heap[j] = [heap[i] EXCEPT !.is_spoiler = FALSE])
                => filename(heap[i]) = SPOILER_TAG \o filename(heap[j]))
    /\ [][\A i \in 1..Len(heap) : filename(heap'[i]) = filename(heap[i])]_vars

\* A spoiler File without an explicit filename, the same File without the
\* mark, and a save() of the former.
C15_Witness ==
    /\ Len(heap) = 2
    /\ heap[1].cls = "File"
    /\ heap[1].is_spoiler
    /\ heap[1]._filename = NoneStr
    /\ heap[2] = [heap[1] EXCEPT !.is_spoiler = FALSE]
    /\ filename(heap[1]) = <<"SPOILER_", "b", ".", "png">>
    /\ call.op = "save"
    /\ call.x.ref = 1

(***************************************************************************)
(* SpecDataUri: calls of to_data_uri and Bytes.from_data_uri, the latter   *)
(* also on what the former returned.  No Resource is kept.                 *)
(***************************************************************************)
ByteInputs ==
    {<<>>, <<65>>, <<65, 66>>, <<255, 254, 253>>, <<0, 16, 131, 16>>, <<137, 80>>,
     Magic.png, Magic.png \o <<0>>, Magic.jfif, <<0, 0, 0, 0, 0, 0>> \o Magic.jfif,
     <<255, 216, 255, 225, 0, 8>> \o Magic.exif, Magic.gif87a, Magic.gif89a,
     Magic.riff \o <<0, 0, 0, 0>>, Magic.riff \o <<0, 0, 0, 0>> \o Magic.webp}
CommaMime == <<"text", "/", "plain", ";", "n", "=", "\"", "a", ",", "b", "\"">>

\* to_data_uri(data, mimetype)
ToDataUri(bytes, mimetype) ==
    LET r == to_data_uri(bytes, mimetype)
    IN /\ call' = [NoCall EXCEPT !.op = "to_data_uri", !.x = Arg("bytes", 0, bytes, <<>>),
                                 !.mime = mimetype, !.exc = r.exc, !.out = r.uri]
       /\ UNCHANGED <<streamVars, fs, sv, heap>>

\* Bytes.from_data_uri(data_uri, filename)
FromDataUri(uri, fname) ==
    LET r == from_data_uri(uri, fname, Uuid(1))
    IN /\ call' = [NoCall EXCEPT !.op = "from_data_uri", !.x = Arg("str", 0, <<>>, uri),
                                 !.exc = r.exc, !.obj = r.obj]
       /\ UNCHANGED <<streamVars, fs, sv, heap>>

\* Bytes.from_data_uri(to_data_uri(data, mimetype)): call keeps data and
\* mimetype.
FromDataUriOfResult ==
    LET r == from_data_uri(call.out, NoneStr, Uuid(1))
    IN /\ call.op = "to_data_uri"
       /\ call.exc = "none"
       /\ call' = [call EXCEPT !.op = "from_data_uri(to_data_uri)", !.exc = r.exc,
                               !.obj = r.obj]
       /\ UNCHANGED <<streamVars, fs, sv, heap>>

NextDataUri ==
    \/ \E bytes \in ByteInputs,
          mimetype \in {NoneStr, Mime("image", "png"), Mime("text", "plain"), DefaultMime,
                        CommaMime} :
          ToDataUri(bytes, mimetype)
    \/ \E uri \in StrInputs, fname \in {NoneStr, <<"x">>} : FromDataUri(uri, fname)
    \/ FromDataUriOfResult

SpecDataUri == InitResource /\ [][NextDataUri]_vars

(***************************************************************************)
(* Properties of SpecDataUri                                               *)
(***************************************************************************)
\* C17: Bytes.from_data_uri(to_data_uri(data, m)) is a Bytes whose data is
\* data and whose mimetype is the type/subtype of m (of the type guessed
\* from data when m is None).
C17_RoundTrip ==
    LET m    == IF call.mime = NoneStr THEN guess_mimetype_from_data(call.x.v) ELSE call.mime
        semi == Find(m, ";", Len(m))
    IN call.op = "from_data_uri(to_data_uri)" =>
          /\ call.exc = "none"
          /\ call.obj.cls = "Bytes"
          /\ call.obj.data = call.x.v
          /\ call.obj.mimetype = IF semi = 0 THEN m ELSE SubSeq(m, 1, semi - 1)

\* C18: to_data_uri raises exactly when it is given no mimetype and the
\* data carries no known image signature; Bytes.from_data_uri raises
\* ValueError for text that does not start with data: and for a data: text
\* that cannot be decoded, and raises nothing else.
C18_DataUriFailures ==
    /\ call.op = "to_data_uri" =>
          LET d == call.x.v
              HasSignature ==
                  \/ StartsWithAt(d, 0, Magic.png)
                  \/ StartsWithAt(d, 6, Magic.exif) \/ StartsWithAt(d, 6, Magic.jfif)
                  \/ StartsWithAt(d, 0, Magic.gif87a) \/ StartsWithAt(d, 0, Magic.gif89a)
                  \/ StartsWithAt(d, 0, Magic.riff) /\ StartsWithAt(d, 8, Magic.webp)
          IN call.exc # "none" <=> (call.mime = NoneStr /\ ~HasSignature)
    /\ call.op \in {"from_data_uri", "from_data_uri(to_data_uri)"} =>
          LET uri == IF call.op = "from_data_uri" THEN call.x.s ELSE call.out
          IN /\ call.exc \in {"none", "ValueError"}
             /\ ~StartsWith(uri, <<"data", ":">>) => call.exc = "ValueError"
             /\ (StartsWith(uri, <<"data", ":">>) /\ DataOpen(uri).exc # "none")
                   => call.exc = "ValueError"

\* to_data_uri was given no mimetype and data in which JFIF stands at the
\* start, where no signature is looked for, and raised TypeError.
C18_Witness ==
    /\ call.op = "to_data_uri"
    /\ call.mime = NoneStr
    /\ call.x.v = Magic.jfif
    /\ call.exc = "TypeError"

====
